---- MODULE Spec2Model ----
(***************************************************************************)
(* Model of the risk-heuristics engine of Analizador-Metadatos             *)
(* (src/src/security/heuristics.py): the metadata scanner, the PDF and     *)
(* Office structure scanners, the MIME dispatcher and the aggregator.      *)
(*                                                                         *)
(* Bytes and text are TLA+ strings; `in`, endswith and re.search are       *)
(* computed character by character with SubSeq.  The Spanish descriptions  *)
(* of the source are written without accents (ASCII only).                 *)
(***************************************************************************)
EXTENDS Integers, Sequences, FiniteSets, TLC

(***************************************************************************)
(* Bounds of the model.                                                    *)
(***************************************************************************)
\* number of byte chunks a file scanned directly is made of
MaxChunks == 2
\* number of byte chunks of a file given to check_file_risk / analyze_risk
MaxRiskChunks == 2
\* number of entries of a ZIP archive scanned directly
MaxEntries == 3
\* number of entries of a ZIP archive given to check_file_risk / analyze_risk
MaxRiskEntries == 1
\* nesting depth of the values below the root mapping of a metadata tree
MaxDepth == 1

(***************************************************************************)
(* Generic helpers: Python's `needle in hay`, str.endswith, list helpers.  *)
(***************************************************************************)
Range(s) == {s[i] : i \in 1..Len(s)}

\* Python: needle in hay  (bytes or str, needle non-empty)
Contains(needle, hay) ==
    \E i \in 1..(Len(hay) - Len(needle) + 1) :
        SubSeq(hay, i, i + Len(needle) - 1) = needle

\* Python: s.endswith(suffix)
EndsWith(s, suffix) ==
    /\ Len(s) >= Len(suffix)
    /\ SubSeq(s, Len(s) - Len(suffix) + 1, Len(s)) = suffix

\* number of positions of xs holding e
Count(xs, e) == Cardinality({i \in 1..Len(xs) : xs[i] = e})

\* all sequences without repetition whose elements are exactly the set S
RECURSIVE Orderings(_)
Orderings(S) ==
    IF S = {} THEN {<<>>}
    ELSE UNION {{<<e>> \o rest : rest \in Orderings(S \ {e})} : e \in S}

\* outcome of a call: a returned value or a raised exception
Ok(v) == [raised |-> FALSE, value |-> v]
Raise(e) == [raised |-> TRUE, error |-> e]

(***************************************************************************)
(* Files.  A path names nothing (missing), or a file that is unreadable    *)
(* (open() raises OSError), plain bytes, a valid ZIP archive with its      *)
(* entry names, or a file that ends like a ZIP archive but whose directory *)
(* cannot be read (BadZipFile).                                            *)
(***************************************************************************)
Missing == [kind |-> "missing"]
Unreadable == [kind |-> "unreadable"]
CorruptZip == [kind |-> "corruptzip"]
BytesFile(c) == [kind |-> "bytes", content |-> c]
ZipFile(names) == [kind |-> "zip", names |-> names]

PdfChunks ==
    {"/JavaScript", "/JS", "/OpenAction", "/Launch", "/RichMedia", "jsPDF", "/J", "S"}

\* the chunks of the files given to check_file_risk / analyze_risk
RiskChunks == {"/JS", "/OpenAction", "/Launch", "/RichMedia"}

RECURSIVE ContentsOfLen(_, _)
ContentsOfLen(chunks, n) ==
    IF n = 0 THEN {""}
    ELSE {c \o k : c \in ContentsOfLen(chunks, n - 1), k \in chunks}

ContentsUpTo(chunks, n) == UNION {ContentsOfLen(chunks, k) : k \in 0..n}

EntryNames ==
    {"word/document.xml",
     "word/vbaProject.bin",
     "word/_rels/vbaProject.bin.rels",
     "word/embeddings/oleObject1.bin",
     "word/embeddings/oleObject2.bin",
     "word/embeddings/oleObject3.bin",
     "word/embeddings/Microsoft_Excel_Sheet1.xlsx"}

RECURSIVE NameListsOfLen(_)
NameListsOfLen(n) ==
    IF n = 0 THEN {<<>>}
    ELSE {l \o <<e>> : l \in NameListsOfLen(n - 1), e \in EntryNames}

NameListsUpTo(n) == UNION {NameListsOfLen(k) : k \in 0..n}

FilesUpTo(chunks, n, entries) ==
    {Missing, Unreadable, CorruptZip}
        \cup {BytesFile(c) : c \in ContentsUpTo(chunks, n)}
        \cup {ZipFile(l) : l \in NameListsUpTo(entries)}

Files == FilesUpTo(PdfChunks, MaxChunks, MaxEntries)
RiskFiles == FilesUpTo(RiskChunks, MaxRiskChunks, MaxRiskEntries)

\* open(file_path, "rb").read(): the raw bytes, or OSError.  The raw bytes
\* of a ZIP archive hold the signature and the entry names literally.
RECURSIVE JoinNames(_)
JoinNames(names) ==
    IF names = <<>> THEN "" ELSE "PK" \o Head(names) \o JoinNames(Tail(names))

read_bytes(file_path) ==
    CASE file_path.kind = "missing" -> Raise("FileNotFoundError")
      [] file_path.kind = "unreadable" -> Raise("OSError")
      [] file_path.kind = "directory" -> Raise("OSError")
      [] file_path.kind = "bytes" -> Ok(file_path.content)
      [] file_path.kind = "zip" -> Ok(JoinNames(file_path.names) \o "PK")
      [] file_path.kind = "corruptzip" -> Ok("PK")

\* zipfile.is_zipfile: False for anything that cannot be opened or has no
\* end-of-central-directory record; it never raises
is_zipfile(file_path) == file_path.kind \in {"zip", "corruptzip"}

\* zipfile.ZipFile(file_path, 'r').namelist(), or BadZipFile
namelist(file_path) ==
    IF file_path.kind = "zip" THEN Ok(file_path.names) ELSE Raise("BadZipFile")

(***************************************************************************)
(* Pattern tables (module constants of heuristics.py).                     *)
(***************************************************************************)
\* faulty variant: the table without its /Launch entry
PDF_THREAT_KEYWORDS_NoLaunch ==
    << [keyword |-> "/JavaScript", desc |-> "Contiene codigo JavaScript"],
       [keyword |-> "/JS", desc |-> "Contiene codigo JavaScript"],
       [keyword |-> "/OpenAction", desc |-> "Ejecuta una accion al abrir el documento"],
       [keyword |-> "/RichMedia",
        desc |-> "Contenido multimedia enriquecido (posible vector de ataque)"] >>

\* the dict PDF_THREAT_KEYWORDS, in insertion order (the order of .items())
PDF_THREAT_KEYWORDS ==
    << [keyword |-> "/JavaScript", desc |-> "Contiene codigo JavaScript"],
       [keyword |-> "/JS", desc |-> "Contiene codigo JavaScript"],
       [keyword |-> "/OpenAction", desc |-> "Ejecuta una accion al abrir el documento"],
       [keyword |-> "/Launch", desc |-> "Intenta lanzar un programa externo"],
       [keyword |-> "/RichMedia",
        desc |-> "Contenido multimedia enriquecido (posible vector de ataque)"] >>

(***************************************************************************)
(* scan_pdf_structure                                                      *)
(***************************************************************************)
\* f"Estructura PDF sospechosa: {desc} ({keyword.decode()})"
PdfKeywordIndicator(desc, keyword) ==
    "Estructura PDF sospechosa: " \o desc \o " (" \o keyword \o ")"

\* f"Estructura PDF sospechosa: {desc} combinada con scripts/lanzadores"
PdfCombinedIndicator(desc) ==
    "Estructura PDF sospechosa: " \o desc \o " combinada con scripts/lanzadores"

\* faulty variant: /OpenAction reported whenever it is found
OpenActionTrigger_Always(content) == TRUE

\* faulty variant: the test for /JavaScript left out
OpenActionTrigger_NoJavaScript(content) ==
    \/ Contains("/JS", content)
    \/ Contains("/Launch", content)

\* faulty variant: the test for /JS left out
OpenActionTrigger_NoJS(content) ==
    \/ Contains("/JavaScript", content)
    \/ Contains("/Launch", content)

\* the condition under which a found /OpenAction is reported
OpenActionTrigger(content) ==
    \/ Contains("/JavaScript", content)
    \/ Contains("/JS", content)
    \/ Contains("/Launch", content)

\* the module-level objects of heuristics.py as the process holds them: a
\* list and a dict, both mutable
VARIABLES
    pattern_table,  \* the global SUSPICIOUS_METADATA_PATTERNS
    keyword_table   \* the global PDF_THREAT_KEYWORDS

table_vars == <<pattern_table, keyword_table>>

\* one iteration of the keyword loop: the list `indicators` after it
pdf_keyword_step(content, keyword, desc, indicators) ==
    IF Contains(keyword, content)
    THEN IF keyword = "/OpenAction"
         THEN IF OpenActionTrigger(content)
              THEN Append(indicators, PdfCombinedIndicator(desc))
              ELSE indicators
         ELSE Append(indicators, PdfKeywordIndicator(desc, keyword))
    ELSE indicators

\* for keyword, desc in PDF_THREAT_KEYWORDS.items(): from entry i on
RECURSIVE pdf_keyword_loop(_, _, _)
pdf_keyword_loop(content, i, indicators) ==
    IF i > Len(keyword_table) THEN indicators
    ELSE pdf_keyword_loop(content, i + 1,
             pdf_keyword_step(content, keyword_table[i].keyword,
                              keyword_table[i].desc, indicators))

\* faulty variant: a file of the benign generator is not scanned further
jsPDF_exemption_Suppress(content) ==
    IF Contains("jsPDF", content) THEN "" ELSE content

\* the jsPDF branch: `if b"jsPDF" in content: pass` changes nothing
jsPDF_exemption(content) ==
    IF Contains("jsPDF", content) THEN content ELSE content

\* the list `indicators` when the try block of scan_pdf_structure is left:
\* a read error is swallowed with nothing appended yet
pdf_indicators(file_path) ==
    LET rd == read_bytes(file_path)
    IN  IF rd.raised THEN <<>>
        ELSE pdf_keyword_loop(jsPDF_exemption(rd.value), 1, <<>>)

\* list(set(indicators)): the iteration order of a set of str depends on the
\* interpreter's string hashing, which is fixed within one process and
\* randomised between processes.  `order` is what this process has already
\* shown for an insertion list (src), the result is any ordering otherwise.
NoOrder == [src |-> <<>>, lst |-> <<>>]

\* faulty variant: every element comes out twice
list_set_Repeat(indicators, order) ==
    {l \o l : l \in Orderings(Range(indicators))}

list_set(indicators, order) ==
    IF order.src = indicators THEN {order.lst}
    ELSE Orderings(Range(indicators))

\* the lists scan_pdf_structure can return in a process with this order
scan_pdf_structure(file_path, order) ==
    list_set(pdf_indicators(file_path), order)

(***************************************************************************)
(* scan_office_structure                                                   *)
(***************************************************************************)
VbaIndicator == "Contiene Macros VBA (vbaProject.bin)"

\* f"Contiene {len(ole_files)} objeto(s) OLE incrustado(s)"
OleIndicator(n) == "Contiene " \o ToString(n) \o " objeto(s) OLE incrustado(s)"

\* faulty variant: a substring test in place of endswith
has_vba_Substring(file_names) ==
    \E i \in 1..Len(file_names) : Contains("vbaProject.bin", file_names[i])

\* any(name.endswith("vbaProject.bin") for name in file_names)
has_vba(file_names) ==
    \E i \in 1..Len(file_names) : EndsWith(file_names[i], "vbaProject.bin")

\* [f for f in file_names if "embeddings/oleObject" in f]
ole_files(file_names) ==
    SelectSeq(file_names, LAMBDA f : Contains("embeddings/oleObject", f))

\* faulty variant: the OLE indicator appended once per matching entry
office_checks_PerObject(file_names) ==
    (IF has_vba(file_names) THEN <<VbaIndicator>> ELSE <<>>)
        \o [i \in 1..Len(ole_files(file_names)) |->
                OleIndicator(Len(ole_files(file_names)))]

\* the statements under `with zipfile.ZipFile(...)`: the indicators appended
office_checks(file_names) ==
    (IF has_vba(file_names) THEN <<VbaIndicator>> ELSE <<>>)
        \o (IF ole_files(file_names) # <<>>
            THEN <<OleIndicator(Len(ole_files(file_names)))>>
            ELSE <<>>)

\* the try block of scan_office_structure
office_try(file_path) ==
    IF ~is_zipfile(file_path) THEN Ok(<<>>)
    ELSE LET nl == namelist(file_path)
         IN  IF nl.raised THEN nl ELSE Ok(office_checks(nl.value))

\* faulty variant: the exception is not caught
office_except_Propagate(outcome) == outcome

\* `except Exception: pass` then `return indicators`: an exception can only
\* come from opening the archive, before anything was appended
office_except(outcome) ==
    IF outcome.raised THEN Ok(<<>>) ELSE outcome

scan_office_structure(file_path) == office_except(office_try(file_path))

(***************************************************************************)
(* check_file_risk                                                         *)
(***************************************************************************)
MimePdf == "application/pdf"
MimeDocx == "application/vnd.openxmlformats-officedocument.wordprocessingml.document"
MimeXlsx == "application/vnd.openxmlformats-officedocument.spreadsheetml.sheet"
MimePptx == "application/vnd.openxmlformats-officedocument.presentationml.presentation"
OfficeMimes == {MimeDocx, MimeXlsx, MimePptx}
MimeTypes == {MimePdf, "application/msword", "image/png"} \cup OfficeMimes

\* f"Error al analizar estructura del archivo: {e}"
StructureErrorIndicator(e) == "Error al analizar estructura del archivo: " \o e

\* faulty variant: the legacy Word type sent to the Office scan as well
structure_scanner_Msword(mime_type) ==
    IF mime_type = MimePdf THEN "scan_pdf_structure"
    ELSE IF mime_type \in OfficeMimes \cup {"application/msword"}
         THEN "scan_office_structure"
         ELSE "none"

\* the if / elif of check_file_risk: the scan function the MIME type selects
structure_scanner(mime_type) ==
    IF mime_type = MimePdf THEN "scan_pdf_structure"
    ELSE IF mime_type \in OfficeMimes THEN "scan_office_structure"
         ELSE "none"

\* the try block of check_file_risk: the possible outcomes
file_risk_try(file_path, mime_type, order) ==
    CASE structure_scanner(mime_type) = "scan_pdf_structure" ->
            {Ok(l) : l \in scan_pdf_structure(file_path, order)}
      [] structure_scanner(mime_type) = "scan_office_structure" ->
            {scan_office_structure(file_path)}
      [] OTHER -> {Ok(<<>>)}

\* `except Exception as e`: the error becomes the only indicator
file_risk_except(outcome) ==
    IF outcome.raised THEN Ok(<<StructureErrorIndicator(outcome.error)>>)
    ELSE outcome

\* faulty variant: the file is opened before the try block is entered
check_file_risk_Unguarded(file_path, mime_type, order) ==
    IF read_bytes(file_path).raised THEN {read_bytes(file_path)}
    ELSE {file_risk_except(o) : o \in file_risk_try(file_path, mime_type, order)}

\* the outcomes of check_file_risk
check_file_risk(file_path, mime_type, order) ==
    {file_risk_except(o) : o \in file_risk_try(file_path, mime_type, order)}

\* the file accesses of scan_pdf_structure, in order
pdf_accesses(file_path) == <<"open">>

\* the file accesses of scan_office_structure, in order
office_accesses(file_path) ==
    <<"is_zipfile">> \o (IF is_zipfile(file_path) THEN <<"ZipFile">> ELSE <<>>)

\* the scan function check_file_risk calls and the file accesses it makes
file_risk_calls(file_path, mime_type) ==
    CASE structure_scanner(mime_type) = "scan_pdf_structure" ->
            <<"scan_pdf_structure">> \o pdf_accesses(file_path)
      [] structure_scanner(mime_type) = "scan_office_structure" ->
            <<"scan_office_structure">> \o office_accesses(file_path)
      [] OTHER -> <<>>

\* the string-hash order the process has shown after the structure scan
order_after(file_path, mime_type, order, returned) ==
    IF structure_scanner(mime_type) = "scan_pdf_structure"
    THEN [src |-> pdf_indicators(file_path), lst |-> returned]
    ELSE order

(***************************************************************************)
(* Metadata trees.  A value is a mapping (its items in insertion order), a *)
(* list, a tuple, a string or a scalar (number, boolean, None).  A string  *)
(* is its text followed by `pad` filler characters '#', which occur in no  *)
(* pattern, so that a 5001-character value needs no 5001-character text.   *)
(***************************************************************************)
Str(text, pad) == [t |-> "str", text |-> text, pad |-> pad]
Scalar == [t |-> "scalar"]
Dict(items) == [t |-> "dict", items |-> items]
List(elems) == [t |-> "list", elems |-> elems]
Tuple(elems) == [t |-> "tuple", elems |-> elems]
Item(k, v) == [k |-> k, v |-> v]

\* len(value) of a string value
StrLen(value) == Len(value.text) + value.pad

\* faulty variant: a value of 5000 characters counts as long
LongValueLimit_Inclusive == 5000 - 1

LongValueLimit == 5000

\* the leaves of the mappings given to analyze_risk
RiskLeaves ==
    {Scalar,
     Str("Autor", 0),
     Str("<script>alert(1)</script>", 0),
     Str("JavaScript:eval(x)", 0),
     Str("x", 5000)}

\* the leaves of the mappings given to check_metadata_risk: a number, clean
\* strings of 5 and of 5000 characters, a string of 5001 characters, and
\* strings that match one and two entries of the pattern table
Leaves ==
    RiskLeaves \cup {Str("x", 4999), Str("Document_Open auto_open", 0)}

RECURSIVE ValuesOfDepth(_)
ValuesOfDepth(d) ==
    IF d = 0 THEN Leaves
    ELSE LET below == ValuesOfDepth(d - 1)
         IN  below \cup {List(<<v>>) : v \in below}
                   \cup {Tuple(<<v>>) : v \in below}
                   \cup {Dict(<<Item("b", v)>>) : v \in below}

\* mappings whose keys hold the characters the paths are built with
PathTrees ==
    {Dict(<<Item("a", List(<<Dict(<<Item("b", Str("eval(", 0))>>)>>))>>)}
        \cup {Dict(<<Item(k, Str("<script>alert(1)</script>", 0)), Item("a", v)>>) :
                k \in {"a.b", "a[0]", "b"},
                v \in {Dict(<<Item("b", Str("eval(", 0))>>),
                       List(<<Str("eval(", 0)>>)}}
        \cup {Dict(<<Item("", Dict(<<Item("b", Str("eval(", 0))>>)),
                     Item("b", Str("Autor", 0))>>)}

\* the mappings given to check_metadata_risk
MetadataTrees ==
    PathTrees \cup
    {Dict(<<>>)}
        \cup {Dict(<<Item(k, v)>>) :
                k \in {"a", "comment"}, v \in ValuesOfDepth(MaxDepth)}
        \cup {Dict(<<Item("a", v), Item("comment", w)>>) : v \in Leaves, w \in Leaves}

\* the mappings given to analyze_risk
RiskMetadata ==
    {Dict(<<>>)}
        \cup {Dict(<<Item("comment", v)>>) : v \in RiskLeaves}
        \cup {Dict(<<Item("a", List(<<v>>)), Item("comment", w)>>) :
                v \in RiskLeaves \ {Scalar, Str("Autor", 0)},
                w \in {Str("Autor", 0), Str("<script>alert(1)</script>", 0)}}

(***************************************************************************)
(* re.search(pattern, value, re.IGNORECASE) for the patterns of the table: *)
(* a literal, or a literal, `.*?` (any characters but newline) and a       *)
(* closing literal.                                                        *)
(***************************************************************************)
UpperLetters == "ABCDEFGHIJKLMNOPQRSTUVWXYZ"
LowerLetters == "abcdefghijklmnopqrstuvwxyz"

\* the lower-case letter of every upper-case letter
LowerOf ==
    [c \in {SubSeq(UpperLetters, i, i) : i \in 1..26} |->
        LET i == CHOOSE j \in 1..26 : SubSeq(UpperLetters, j, j) = c
        IN  SubSeq(LowerLetters, i, i)]

LowerChar(c) == IF c \in DOMAIN LowerOf THEN LowerOf[c] ELSE c

RECURSIVE Lower(_)
Lower(s) ==
    IF Len(s) = 0 THEN ""
    ELSE LowerChar(SubSeq(s, 1, 1)) \o Lower(SubSeq(s, 2, Len(s)))

Literal(text, desc) == [pre |-> text, wild |-> FALSE, post |-> "", desc |-> desc]

SUSPICIOUS_METADATA_PATTERNS ==
    << [pre |-> "<script", wild |-> TRUE, post |-> ">",
        desc |-> "Posible inyeccion de script HTML"],
       Literal("javascript:", "Posible esquema URI de JavaScript"),
       Literal("eval(", "Uso de eval() (ejecucion de codigo dinamico)"),
       Literal("base64_decode", "Decodificacion Base64 (comun en obfuscacion)"),
       Literal("cmd.exe", "Referencia a linea de comandos de Windows"),
       Literal("powershell", "Referencia a PowerShell"),
       Literal("/bin/sh", "Referencia a shell de Unix"),
       Literal("auto_open", "Macro de auto-ejecucion (Office)"),
       Literal("Document_Open", "Macro de auto-ejecucion (Office)") >>

re_search(pattern, text) ==
    LET t == Lower(text)
        pre == Lower(pattern.pre)
        post == Lower(pattern.post)
    IN  IF ~pattern.wild THEN Contains(pre, t)
        ELSE \E i \in 1..(Len(t) - Len(pre) + 1) :
                /\ SubSeq(t, i, i + Len(pre) - 1) = pre
                /\ \E j \in (i + Len(pre))..(Len(t) - Len(post) + 1) :
                      /\ SubSeq(t, j, j + Len(post) - 1) = post
                      /\ ~Contains("\n", SubSeq(t, i + Len(pre), j - 1))

(***************************************************************************)
(* check_metadata_risk                                                     *)
(***************************************************************************)
\* f"Valor inusualmente largo en '{path}' ({len(value)} caracteres)"
LongValueIndicator(path, n) ==
    "Valor inusualmente largo en '" \o path \o "' (" \o ToString(n) \o " caracteres)"

\* f"Detectado '{desc}' en '{path}'"
PatternIndicator(desc, path) == "Detectado '" \o desc \o "' en '" \o path \o "'"

\* faulty variant: the key appended with no separator
DictPath_NoDot(path, k) == path \o k

\* f"{path}.{k}" if path else k
DictPath(path, k) == IF path # "" THEN path \o "." \o k ELSE k

\* f"{path}[{i}]"
ListPath(path, i) == path \o "[" \o ToString(i) \o "]"

\* the pattern loop over one string: indicators appended from entry i on
RECURSIVE pattern_loop(_, _, _)
pattern_loop(value, path, i) ==
    IF i > Len(pattern_table) THEN <<>>
    ELSE (IF re_search(pattern_table[i], value.text)
          THEN <<PatternIndicator(pattern_table[i].desc, path)>>
          ELSE <<>>)
            \o pattern_loop(value, path, i + 1)

\* the indicators recursive_scan(value, path) appends, in order
RECURSIVE recursive_scan(_, _)
RECURSIVE scan_items(_, _, _)
RECURSIVE scan_elems(_, _, _)
recursive_scan(value, path) ==
    CASE value.t = "dict" -> scan_items(value.items, path, 1)
      [] value.t = "list" -> scan_elems(value.elems, path, 1)
      [] value.t = "str" ->
            (IF StrLen(value) > LongValueLimit
             THEN <<LongValueIndicator(path, StrLen(value))>>
             ELSE <<>>)
                \o pattern_loop(value, path, 1)
      [] OTHER -> <<>>

\* for k, v in value.items(): from item i on
scan_items(items, path, i) ==
    IF i > Len(items) THEN <<>>
    ELSE recursive_scan(items[i].v, DictPath(path, items[i].k))
            \o scan_items(items, path, i + 1)

\* for i, v in enumerate(value): from position i on (enumerate counts from 0)
scan_elems(elems, path, i) ==
    IF i > Len(elems) THEN <<>>
    ELSE recursive_scan(elems[i], ListPath(path, i - 1))
            \o scan_elems(elems, path, i + 1)

check_metadata_risk(metadata) == recursive_scan(metadata, "")

(***************************************************************************)
(* analyze_risk                                                            *)
(***************************************************************************)
\* faulty variant: the new indicators put in front
list_extend_Prepend(findings, more) == more \o findings

\* findings.extend(more)
list_extend(findings, more) == findings \o more

\* faulty variant: the flag needs more than one indicator
risk_report_MoreThanOne(findings) ==
    [is_suspicious |-> Len(findings) > 1, indicators |-> findings]

\* the dictionary analyze_risk returns
risk_report(findings) ==
    [is_suspicious |-> Len(findings) > 0, indicators |-> findings]

(***************************************************************************)
(* State: one interpreter process in which a caller invokes one function   *)
(* of the module at a time.                                                *)
(***************************************************************************)
(***************************************************************************)
(* extract_metadata_auto (analyze_metadata.py) and what it calls.          *)
(***************************************************************************)
None == "None"

\* a path that names a directory: it exists and is not a regular file
Directory == [kind |-> "directory"]

\* faulty variant: the path only has to exist
ensure_readable_file_Exists(file_path) ==
    IF file_path.kind = "missing" THEN Raise("FileNotFoundError")
    ELSE Ok(file_path)

\* path_tools.ensure_readable_file: `if not resolved.is_file(): raise`
ensure_readable_file(file_path) ==
    IF file_path.kind \in {"missing", "directory"} THEN Raise("FileNotFoundError")
    ELSE Ok(file_path)

\* faulty variant: no file counts as empty
st_size_NonZero(file_path) == 1 + Len(file_path.kind)

\* safe_path.stat().st_size
st_size(file_path) ==
    IF read_bytes(file_path).raised THEN 1
    ELSE Len(read_bytes(file_path).value)

\* EXTENSIONES_MIME as the dict literal is written, the key ".heic" twice
EXTENSIONES_MIME ==
    << <<".pdf", "application/pdf">>,
       <<".jpg", "image/jpeg">>,
       <<".jpeg", "image/jpeg">>,
       <<".png", "image/png">>,
       <<".gif", "image/gif">>,
       <<".webp", "image/webp">>,
       <<".heic", "image/heic">>,
       <<".heic", "image/heif">>,
       <<".txt", "text/plain">>,
       <<".doc", "application/msword">>,
       <<".docx", "application/vnd.openxmlformats-officedocument.wordprocessingml.document">>,
       <<".xls", "application/vnd.ms-excel">>,
       <<".xlsx", "application/vnd.openxmlformats-officedocument.spreadsheetml.sheet">>,
       <<".zip", "application/zip">>,
       <<".rar", "application/x-rar-compressed">>,
       <<".mp3", "audio/mpeg">>,
       <<".mp4", "video/mp4">>,
       <<".avi", "video/x-msvideo">>,
       <<".rtf", "text/rtf">> >>

\* faulty variant: the first value written for the key
dict_get_First(table, key) ==
    LET at == {i \in 1..Len(table) : table[i][1] = key}
    IN  IF at = {} THEN None
        ELSE table[CHOOSE i \in at : \A j \in at : i <= j][2]

\* dict.get(key) on a dict literal: the last value written for the key
dict_get(table, key) ==
    LET at == {i \in 1..Len(table) : table[i][1] = key}
    IN  IF at = {} THEN None
        ELSE table[CHOOSE i \in at : \A j \in at : j <= i][2]

\* the suffixes of the paths given to extract_metadata_auto
Suffixes == {".docx", ".XLSX", ".txt", ".HEIC"}

\* the match lists puremagic.magic_file reports, best match first
MagicMatches ==
    { <<>>,
      <<MimePdf>>,
      <<"image/png">>,
      <<"application/zip", MimeDocx>>,
      <<MimeDocx, MimeXlsx>>,
      <<"image/heic", "image/heif">> }

\* puremagic.magic_file(path): it reads the file; what it matches depends on
\* the signature of the content
magic_file(file_path) ==
    IF read_bytes(file_path).raised THEN {Raise(read_bytes(file_path).error)}
    ELSE {Ok(m) : m \in MagicMatches}

\* get_mime_type after puremagic has answered
get_mime_type(file_path, suffix, magic) ==
    IF ensure_readable_file(file_path).raised THEN Raise("FileNotFoundError")
    ELSE IF magic.raised THEN Ok(None)
    ELSE LET matches == magic.value
             expected_mime == dict_get(EXTENSIONES_MIME, Lower(suffix))
         IN  IF matches = <<>> THEN Ok(None)
             ELSE IF Len(matches) = 1 THEN Ok(matches[1])
             ELSE IF expected_mime # None
                     /\ \E i \in 1..Len(matches) : matches[i] = expected_mime
                  THEN Ok(expected_mime)
                  ELSE Ok(matches[1])

\* raw EXIF values before sanitize_exif_value
Bytes(text) == [t |-> "bytes", text |-> text]

RECURSIVE sanitize_exif_value(_)
sanitize_exif_value(value) ==
    CASE value.t = "bytes" -> Str(value.text, 0)
      [] value.t = "tuple" ->
            Tuple([i \in 1..Len(value.elems) |-> sanitize_exif_value(value.elems[i])])
      [] value.t = "list" ->
            List([i \in 1..Len(value.elems) |-> sanitize_exif_value(value.elems[i])])
      [] value.t = "dict" ->
            Dict([i \in 1..Len(value.items) |->
                    Item(value.items[i].k, sanitize_exif_value(value.items[i].v))])
      [] OTHER -> value

\* the EXIF values the image library hands over
ExifValues ==
    {Bytes("Autor"),
     Bytes("<script>alert(1)</script>"),
     Tuple(<<Bytes("<script>alert(1)</script>")>>)}

ErrorMetadata(message) == Dict(<<Item("error", Str(message, 0))>>)

\* what extract_metadata_image can return
extract_metadata_image(file_path) ==
    IF ensure_readable_file(file_path).raised THEN {Raise("FileNotFoundError")}
    ELSE IF read_bytes(file_path).raised
         THEN {Ok(ErrorMetadata("Error processing image"))}
         ELSE {Ok(Dict(<<Item("UserComment", sanitize_exif_value(v))>>)) :
                    v \in ExifValues}
                \cup {Ok(ErrorMetadata("Error processing image"))}

\* what extract_metadata_pdf can return
extract_metadata_pdf(file_path) ==
    IF ensure_readable_file(file_path).raised THEN {Raise("FileNotFoundError")}
    ELSE IF read_bytes(file_path).raised
         THEN {Ok(ErrorMetadata("Failed to read PDF metadata"))}
         ELSE {Ok(Dict(<<>>)),
               Ok(Dict(<<Item("Title", Str("JavaScript:eval(x)", 0))>>)),
               Ok(ErrorMetadata("Failed to read PDF metadata"))}

\* what extract_metadata_docx can return
extract_metadata_docx(file_path) ==
    IF ensure_readable_file(file_path).raised THEN {Raise("FileNotFoundError")}
    ELSE IF namelist(file_path).raised
         THEN {Ok(ErrorMetadata("Failed to read DOCX metadata"))}
         ELSE {Ok(Dict(<<Item("author", Str("Autor", 0)), Item("title", Scalar)>>)),
               Ok(Dict(<<Item("author", Str("cmd.exe", 0)), Item("title", Scalar)>>))}

\* the if / elif chain of extract_metadata_auto: the extractor of the type
extractor(mime_type) ==
    IF SubSeq(mime_type, 1, 6) = "image/" THEN "extract_metadata_image"
    ELSE IF mime_type = "application/pdf" THEN "extract_metadata_pdf"
    ELSE IF mime_type \in {"application/msword", MimeDocx}
         THEN "extract_metadata_docx"
         ELSE "none"

\* the metadata the chain assigns, or the exception of the extractor
extract_dispatch(file_path, mime_type) ==
    CASE extractor(mime_type) = "extract_metadata_image" ->
            extract_metadata_image(file_path)
      [] extractor(mime_type) = "extract_metadata_pdf" ->
            extract_metadata_pdf(file_path)
      [] extractor(mime_type) = "extract_metadata_docx" ->
            extract_metadata_docx(file_path)
      [] OTHER ->
            {Ok(Dict(<<Item("info",
                Str("Format not currently supported for deep analysis.", 0))>>))}

\* the result of an empty file
empty_result(suffix) ==
    [mime_type |-> "application/x-empty",
     extension |-> Lower(suffix),
     metadata |-> Dict(<<Item("info", Str("File is empty (0 bytes).", 0))>>)]

\* the result dict as it is first built
new_result(mime_type, suffix) ==
    [mime_type |-> mime_type, extension |-> Lower(suffix), metadata |-> Dict(<<>>)]

\* faulty variant: the metadata read so far is kept
extract_except_Keep(result, e) == result

\* except Exception as e: result["metadata"] = {"error": str(e)}
extract_except(result, e) == [result EXCEPT !.metadata = ErrorMetadata(e)]

\* faulty variant: the report is attached whatever it says
attach_security_Always(result, security_report) ==
    result @@ [security_analysis |-> security_report]

\* if security_report["is_suspicious"]: result["security_analysis"] = ...
attach_security(result, security_report) ==
    IF security_report.is_suspicious
    THEN result @@ [security_analysis |-> security_report]
    ELSE result

\* the files given to extract_metadata_auto
ExtractFiles ==
    {Missing, Directory, Unreadable, CorruptZip,
     BytesFile(""), BytesFile("x"), BytesFile("/OpenAction/JS"),
     ZipFile(<<"word/vbaProject.bin">>)}

(***************************************************************************)
(* Concurrent calls of analyze_risk.  Every `[]` a call evaluates creates  *)
(* a list object on the heap of the process; the locals `findings` and     *)
(* `indicators` of a call are references to such objects.  The program     *)
(* never looks at the identity of a list, so a reference is named by the   *)
(* thread that created the object and the count of its creations.          *)
(***************************************************************************)
NumThreads == 2
Threads == 1..NumThreads

NoRef == <<0, 0>>

\* faulty variant: one list object serves every `[]` (as a mutable default
\* argument or a module-level list would)
new_list_Shared(heap, t) == <<0, 1>>

\* `[]` evaluated by thread t: the reference of a fresh list object
new_list(heap, t) == <<t, Cardinality({r \in DOMAIN heap : r[1] = t}) + 1>>

\* the heap once the object of the reference exists
alloc(heap, r) == IF r \in DOMAIN heap THEN heap ELSE heap @@ (r :> <<>>)

\* lst.append(x)
heap_append(heap, r, x) == [heap EXCEPT ![r] = Append(@, x)]

\* lst.extend(more)
heap_extend(heap, r, more) == [heap EXCEPT ![r] = list_extend(@, more)]

Call(f, md, m) == [file_path |-> f, metadata |-> md, mime_type |-> m]
NoCall == Call(Missing, Dict(<<>>), "")

\* the analyze_risk calls the threads make, each for a file of its own
ConcCalls ==
    {Call(BytesFile("/OpenAction/JS"),
          Dict(<<Item("comment", Str("JavaScript:eval(x)", 0))>>), MimePdf),
     Call(ZipFile(<<"word/vbaProject.bin">>),
          Dict(<<Item("a", List(<<Str("<script>alert(1)</script>", 0)>>)),
                 Item("comment", Str("Autor", 0))>>), MimeDocx),
     Call(Unreadable, Dict(<<>>), MimePdf)}

VARIABLES
    op,             \* the function being called
    pc,             \* "idle", "called", "meta_done", "struct_done", "done"
    file_path,      \* argument: the file the path names
    metadata,       \* argument: the metadata tree
    mime_type,      \* argument: the MIME type
    findings,       \* analyze_risk: the local list `findings`
    meta_ret,       \* analyze_risk: what check_metadata_risk returned
    struct_ret,     \* analyze_risk: what check_file_risk returned
    ret,            \* the list a scan function returned
    report,         \* the report analyze_risk returned
    exc,            \* the exception the call raised, "" when it returned
    calls,          \* the functions called and file accesses made, in order
    suffix,         \* extract_metadata_auto, get_mime_type: the suffix of the path
    magic,          \* get_mime_type: what puremagic.magic_file answered
    removed,        \* extract_metadata_auto: the file was deleted during the call
    caught,         \* extract_metadata_auto: the exception its except caught
    result,         \* extract_metadata_auto: the result dict
    str_hash_order, \* the set iteration order this process has shown
    has_prev,       \* the caller repeated the call with identical arguments
    prev_out,       \* the indicators the previous identical call returned
    heap,           \* concurrent calls: the list objects of the process
    th_pc,          \* per thread: the position in analyze_risk
    th_call,        \* per thread: the arguments of its call
    th_findings,    \* per thread: the local `findings` (a reference)
    th_indicators,  \* per thread: the local `indicators` of the running scan
    th_pending,     \* per thread: the appends recursive_scan has yet to make
    th_report       \* per thread: the report its call returned

\* the state of the sequential calls, the string-hash order aside
seq_vars == <<op, pc, file_path, metadata, mime_type, findings, meta_ret,
              struct_ret, ret, report, exc, calls, suffix, magic, result,
              removed, caught, has_prev, prev_out>>

\* what a running extract_metadata_auto holds about its file
race_vars == <<removed, caught>>

\* the file the path names now
current_file == IF removed THEN Missing ELSE file_path

\* the state of the concurrent calls
conc_vars == <<heap, th_pc, th_call, th_findings, th_indicators, th_pending,
               th_report>>

(***************************************************************************)
(* Writing a changed copy of a file: core/modify_metadata.                  *)
(***************************************************************************)

\* how many times an operation is applied to its own output
MaxApplications == 2

\* a resolved pathlib.Path: its directory and its final component
Path(parent, name) == [parent |-> parent, name |-> name]

\* no path: an argument left at None, a local not yet assigned
NoPath == Path("", "")

\* the position pathlib splits a name at: that of the last '.', counted
\* from 1, when it is neither the first nor the last character; else 0
suffix_index(name) ==
    LET dots == {i \in 1..Len(name) : SubSeq(name, i, i) = "."}
        i == IF dots = {} THEN 0
             ELSE CHOOSE d \in dots : \A e \in dots : e <= d
    IN  IF 1 < i /\ i < Len(name) THEN i ELSE 0

\* PurePath.suffix
path_suffix(name) ==
    IF suffix_index(name) = 0 THEN ""
    ELSE SubSeq(name, suffix_index(name), Len(name))

\* PurePath.stem
path_stem(name) ==
    IF suffix_index(name) = 0 THEN name
    ELSE SubSeq(name, 1, suffix_index(name) - 1)

\* PurePath.with_name
with_name(path, name) == Path(path.parent, name)

\* faulty variant: the suffix is dropped
ensure_output_path_NoSuffix(source_path, destination, sfx) ==
    IF destination # NoPath
    THEN destination
    ELSE with_name(source_path,
                   path_stem(source_path.name) \o path_suffix(source_path.name))

\* the target ensure_output_path answers (its mkdir is in modify_target)
ensure_output_path(source_path, destination, sfx) ==
    IF destination # NoPath
    THEN destination
    ELSE with_name(source_path,
                   path_stem(source_path.name) \o sfx
                       \o path_suffix(source_path.name))

\* the six operations, the suffix each passes and the format each reads
Modifiers ==
    {"wipe_metadata_pdf", "wipe_metadata_docx", "wipe_metadata_image",
     "apply_custom_pdf_metadata", "apply_custom_docx_metadata",
     "apply_custom_image_metadata"}

modifier_suffix(o) ==
    IF o \in {"wipe_metadata_pdf", "wipe_metadata_docx", "wipe_metadata_image"}
    THEN "_clean" ELSE "_custom"

modifier_format(o) ==
    IF o \in {"wipe_metadata_pdf", "apply_custom_pdf_metadata"} THEN "pdf"
    ELSE IF o \in {"wipe_metadata_docx", "apply_custom_docx_metadata"}
         THEN "docx" ELSE "image"

\* the regular files of the file system at the start, each with its format
InitialFiles ==
    {[path |-> Path("/d", "a.pdf"), format |-> "pdf"],
     [path |-> Path("/d", "a"), format |-> "docx"],
     [path |-> Path("/d", "f."), format |-> "pdf"],
     [path |-> Path("/d", ".rc"), format |-> "image"],
     [path |-> Path("/d", "a..pdf"), format |-> "pdf"],
     [path |-> Path("/d", "b.tar.JPG"), format |-> "image"]}

\* the paths a caller passes as file_path
GivenPaths == {f.path : f \in InitialFiles} \cup {Path("/d", "gone.pdf")}

\* the destinations a caller passes
Destinations == {NoPath, Path("/e", "out.pdf"), Path("/d", "a.pdf")}

VARIABLES
    fs,             \* the regular files: records of path and format
    dirs,           \* the directories that exist
    mod_pc,         \* where the running operation stands
    mod_op,         \* the operation called
    mod_path,       \* its argument file_path
    destination,    \* its argument destination
    source_file,    \* its local
    output_file,    \* its local, and what it returns
    mod_exc,        \* the exception it raised, "" if none
    written,        \* the paths it opened for writing
    applications,   \* how many times in a row it ran on its own output
    prev_source     \* the source of the run before, if that run named its own output

modify_vars == <<fs, dirs, mod_pc, mod_op, mod_path, destination, source_file,
                 output_file, mod_exc, written, applications, prev_source>>

InitModify ==
    /\ fs = InitialFiles
    /\ dirs = {"/d"}
    /\ mod_pc = "idle"
    /\ mod_op = "none"
    /\ mod_path = NoPath
    /\ destination = NoPath
    /\ source_file = NoPath
    /\ output_file = NoPath
    /\ mod_exc = ""
    /\ written = <<>>
    /\ applications = 0
    /\ prev_source = NoPath

(***************************************************************************)
(* The console menu: main.run_cli.                                          *)
(***************************************************************************)

\* how many times the menu is answered in one run
MaxPrompts == 3

\* the whitespace the lines typed here contain
Whitespace == {" "}

\* Python: s.strip()
strip(s) ==
    LET keep == {i \in 1..Len(s) : SubSeq(s, i, i) \notin Whitespace}
    IN  IF keep = {} THEN ""
        ELSE SubSeq(s, CHOOSE i \in keep : \A j \in keep : i <= j,
                       CHOOSE i \in keep : \A j \in keep : j <= i)

\* faulty variant: options 3 and 4 are exchanged
menu_options_Swapped(user_choice) ==
    CASE user_choice = "1" -> "analyze_metadata_flow"
      [] user_choice = "2" -> "verify_extension_flow"
      [] user_choice = "3" -> "apply_default_metadata_flow"
      [] user_choice = "4" -> "wipe_metadata_flow"
      [] user_choice = "5" -> "apply_custom_metadata_flow"
      [] OTHER -> None

\* menu_options.get(user_choice)
menu_options(user_choice) ==
    CASE user_choice = "1" -> "analyze_metadata_flow"
      [] user_choice = "2" -> "verify_extension_flow"
      [] user_choice = "3" -> "wipe_metadata_flow"
      [] user_choice = "4" -> "apply_default_metadata_flow"
      [] user_choice = "5" -> "apply_custom_metadata_flow"
      [] OTHER -> None

\* the lines a user types at the menu
MenuInputs == {"1", "2", "3", "4", "5", "6", "7", "", " 6", "3 ", "66"}

\* how a flow can end: the texts it prints, or the exception it lets out
Printed(text) == [raised |-> FALSE, text |-> text]
Escaped(error) == [raised |-> TRUE, text |-> error]
NotFound == Printed("file not found")

\* a flow that has not ended yet
Running == Printed("")

VARIABLES
    cli_pc,         \* run_cli: at the menu, in a flow, stopped or crashed
    menu_inputs,    \* the lines typed at the menu so far
    flows_run,      \* the flows called so far, each with how it ended
    cli_printed,    \* what run_cli itself printed for the last line
    cli_exc         \* the exception that left run_cli, "" if none

cli_vars == <<cli_pc, menu_inputs, flows_run, cli_printed, cli_exc>>

InitCli ==
    /\ cli_pc = "menu"
    /\ menu_inputs = <<>>
    /\ flows_run = <<>>
    /\ cli_printed = ""
    /\ cli_exc = ""

(***************************************************************************)
(* The graphical shell: gui/main_window and gui/frames.                     *)
(***************************************************************************)

\* how many files one session writes
MaxWrites == 2

\* os.path.splitext(name)[1]: from the last '.', unless only dots precede it
splitext_ext(name) ==
    LET dots == {i \in 1..Len(name) : SubSeq(name, i, i) = "."}
        i == IF dots = {} THEN 0
             ELSE CHOOSE d \in dots : \A e \in dots : e <= d
    IN  IF i > 0 /\ \E j \in 1..(i - 1) : SubSeq(name, j, j) # "."
        THEN SubSeq(name, i, Len(name)) ELSE ""

\* a regular file: where it is, what its bytes are, the metadata it holds
GuiFile(path, format, meta) ==
    [path |-> path, format |-> format, meta |-> meta]

\* the files on the disk when the window opens
GuiFiles ==
    {GuiFile(Path("/d", "a.pdf"), "pdf", "Title a"),
     GuiFile(Path("/d", "b.DOCX"), "docx", "Title b"),
     GuiFile(Path("/d", "c.txt"), "other", "Title c"),
     GuiFile(Path("/d", "f."), "pdf", "Title f"),
     GuiFile(Path("/d", "x.pdf"), "image", "Title x"),
     GuiFile(Path("/d", "y.png"), "image", "Title y")}

\* the metadata a user types into the editor
TypedMetadata == {"Title typed", "Author typed"}

\* core.file_loader._infer_file_type
infer_file_type(extension, mime) ==
    IF mime = "image" THEN "image"
    ELSE IF mime = "pdf" \/ extension = ".pdf" THEN "pdf"
    ELSE IF mime = "docx" \/ extension \in {".doc", ".docx"} THEN "docx"
    ELSE "unknown"

\* the branch of save_changes an extension takes
save_changes_type(ext) ==
    IF ext = ".pdf" THEN "pdf"
    ELSE IF ext \in {".docx", ".doc"} THEN "docx"
    ELSE IF ext \in {".jpg", ".jpeg", ".png", ".heic"} THEN "image"
    ELSE "unknown"

\* the record of a path in a set of files
file_at(files, path) == CHOOSE f \in files : f.path = path

\* what run_analysis leaves in the console and in current_metadata
run_analysis(files, path) ==
    IF \E f \in files : f.path = path
    THEN [console |-> [mime |-> file_at(files, path).format,
                       metadata |-> file_at(files, path).meta],
          current_metadata |-> file_at(files, path).meta]
    ELSE [console |-> [mime |-> "", metadata |-> "Critical Error"],
          current_metadata |-> ""]

\* what a wipe_*, apply_default_* or apply_custom_* call does to the disk:
\* the copy it writes, or nothing when the library cannot read the source
write_copy(files, path, type, sfx, meta) ==
    IF (\E f \in files : f.path = path) /\ file_at(files, path).format = type
    THEN Ok(GuiFile(ensure_output_path(path, NoPath, sfx), type, meta))
    ELSE Raise("Exception")

\* the files after a copy was written
with_copy(files, copy) == {f \in files : f.path # copy.path} \cup {copy}

\* faulty variant: the selection stays on the source
select_written_Keep(selected, new_path) == selected

\* self.controller.selected_file_path.set(str(new_path))
select_written(selected, new_path) == new_path

VARIABLES
    gui_frame,          \* the frame raised last
    selected_file_path, \* controller.selected_file_path, NoPath when empty
    current_metadata,   \* controller.current_metadata, "" when empty
    txt_console,        \* the analysis in the console of ResultsFrame
    lbl_path,           \* the path in the label of the frame shown
    gui_fs,             \* the files on the disk
    gui_event,          \* the handler that ran last
    new_path,           \* the path that handler wrote, NoPath if none
    gui_writes          \* how many files were written

gui_vars == <<gui_frame, selected_file_path, current_metadata, txt_console,
              lbl_path, gui_fs, gui_event, new_path, gui_writes>>

NoConsole == [mime |-> "", metadata |-> ""]

InitGui ==
    /\ gui_frame = "FileSelectFrame"
    /\ selected_file_path = NoPath
    /\ current_metadata = ""
    /\ txt_console = NoConsole
    /\ lbl_path = NoPath
    /\ gui_fs = GuiFiles
    /\ gui_event = "__init__"
    /\ new_path = NoPath
    /\ gui_writes = 0

\* the state outside the analysis functions
app_vars == <<modify_vars, cli_vars, gui_vars>>

vars == <<seq_vars, str_hash_order, conc_vars, table_vars, app_vars>>

NoReport == [is_suspicious |-> FALSE, indicators |-> <<>>]
NoResult == [mime_type |-> "", extension |-> "", metadata |-> Dict(<<>>)]

Init ==
    /\ InitModify
    /\ InitCli
    /\ InitGui
    /\ op = "none"
    /\ pc = "idle"
    /\ file_path = Unreadable
    /\ metadata = Dict(<<>>)
    /\ mime_type = ""
    /\ findings = <<>>
    /\ meta_ret = <<>>
    /\ struct_ret = <<>>
    /\ ret = <<>>
    /\ report = NoReport
    /\ exc = ""
    /\ calls = <<>>
    /\ suffix = ""
    /\ magic = Ok(<<>>)
    /\ removed = FALSE
    /\ caught = ""
    /\ result = NoResult
    /\ str_hash_order = NoOrder
    /\ has_prev = FALSE
    /\ prev_out = <<>>
    /\ heap = <<>>
    /\ th_pc = [t \in Threads |-> "idle"]
    /\ th_call = [t \in Threads |-> NoCall]
    /\ th_findings = [t \in Threads |-> NoRef]
    /\ th_indicators = [t \in Threads |-> NoRef]
    /\ th_pending = [t \in Threads |-> <<>>]
    /\ th_report = [t \in Threads |-> NoReport]
    /\ pattern_table = SUSPICIOUS_METADATA_PATTERNS
    /\ keyword_table = PDF_THREAT_KEYWORDS

\* the indicators the finished call handed back
Output == IF op \in {"analyze_risk", "extract_metadata_auto"}
          THEN report.indicators ELSE ret

\* a function is entered with its arguments bound and its locals fresh
Enter(o, f, md, m) ==
    /\ op' = o
    /\ pc' = "called"
    /\ file_path' = f
    /\ metadata' = md
    /\ mime_type' = m
    /\ findings' = <<>>
    /\ meta_ret' = <<>>
    /\ struct_ret' = <<>>
    /\ ret' = <<>>
    /\ report' = NoReport
    /\ exc' = ""
    /\ calls' = <<>>
    /\ magic' = Ok(<<>>)
    /\ removed' = FALSE
    /\ caught' = ""
    /\ result' = NoResult

Call_scan_pdf_structure ==
    /\ pc = "idle"
    /\ \E f \in Files : Enter("scan_pdf_structure", f, Dict(<<>>), "")
    /\ UNCHANGED <<suffix, str_hash_order, has_prev, prev_out>>
    /\ UNCHANGED conc_vars
    /\ UNCHANGED table_vars
    /\ UNCHANGED app_vars

Call_scan_office_structure ==
    /\ pc = "idle"
    /\ \E f \in Files : Enter("scan_office_structure", f, Dict(<<>>), "")
    /\ UNCHANGED <<suffix, str_hash_order, has_prev, prev_out>>
    /\ UNCHANGED conc_vars
    /\ UNCHANGED table_vars
    /\ UNCHANGED app_vars

Call_check_metadata_risk ==
    /\ pc = "idle"
    /\ \E md \in MetadataTrees : Enter("check_metadata_risk", Unreadable, md, "")
    /\ UNCHANGED <<suffix, str_hash_order, has_prev, prev_out>>
    /\ UNCHANGED conc_vars
    /\ UNCHANGED table_vars
    /\ UNCHANGED app_vars

Call_check_file_risk ==
    /\ pc = "idle"
    /\ \E f \in RiskFiles, m \in MimeTypes :
          Enter("check_file_risk", f, Dict(<<>>), m)
    /\ UNCHANGED <<suffix, str_hash_order, has_prev, prev_out>>
    /\ UNCHANGED conc_vars
    /\ UNCHANGED table_vars
    /\ UNCHANGED app_vars

Call_analyze_risk ==
    /\ pc = "idle"
    /\ \E f \in RiskFiles, md \in RiskMetadata, m \in MimeTypes :
          Enter("analyze_risk", f, md, m)
    /\ UNCHANGED <<suffix, str_hash_order, has_prev, prev_out>>
    /\ UNCHANGED conc_vars
    /\ UNCHANGED table_vars
    /\ UNCHANGED app_vars

\* scan_pdf_structure runs to its return
Run_scan_pdf_structure ==
    /\ pc = "called" /\ op = "scan_pdf_structure"
    /\ \E out \in scan_pdf_structure(file_path, str_hash_order) :
          /\ ret' = out
          /\ str_hash_order' = [src |-> pdf_indicators(file_path), lst |-> out]
    /\ calls' = pdf_accesses(file_path)
    /\ pc' = "done"
    /\ UNCHANGED <<suffix, result, exc, op, file_path, metadata, mime_type, findings, meta_ret,
                   struct_ret, report, has_prev, prev_out>>
    /\ UNCHANGED conc_vars
    /\ UNCHANGED table_vars
    /\ UNCHANGED magic
    /\ UNCHANGED race_vars
    /\ UNCHANGED app_vars

\* scan_office_structure runs to its return
Run_scan_office_structure ==
    /\ pc = "called" /\ op = "scan_office_structure"
    /\ LET outcome == scan_office_structure(file_path)
       IN  /\ ret' = (IF outcome.raised THEN <<>> ELSE outcome.value)
           /\ exc' = (IF outcome.raised THEN outcome.error ELSE "")
    /\ calls' = office_accesses(file_path)
    /\ pc' = "done"
    /\ UNCHANGED <<suffix, result, op, file_path, metadata, mime_type, findings, meta_ret,
                   struct_ret, report, str_hash_order, has_prev, prev_out>>
    /\ UNCHANGED conc_vars
    /\ UNCHANGED table_vars
    /\ UNCHANGED magic
    /\ UNCHANGED race_vars
    /\ UNCHANGED app_vars

\* faulty variant: the scan takes the items out of the mapping it walks
Run_check_metadata_risk_Consume ==
    /\ pc = "called" /\ op = "check_metadata_risk"
    /\ ret' = check_metadata_risk(metadata)
    /\ metadata' = Dict(<<>>)
    /\ pc' = "done"
    /\ UNCHANGED <<suffix, result, calls, exc, op, file_path, mime_type, findings, meta_ret,
                   struct_ret, report, str_hash_order, has_prev, prev_out>>
    /\ UNCHANGED conc_vars
    /\ UNCHANGED table_vars
    /\ UNCHANGED magic
    /\ UNCHANGED race_vars
    /\ UNCHANGED app_vars

\* check_metadata_risk runs to its return
Run_check_metadata_risk ==
    /\ pc = "called" /\ op = "check_metadata_risk"
    /\ ret' = check_metadata_risk(metadata)
    /\ pc' = "done"
    /\ UNCHANGED <<suffix, result, calls, exc, op, file_path, metadata, mime_type, findings, meta_ret,
                   struct_ret, report, str_hash_order, has_prev, prev_out>>
    /\ UNCHANGED conc_vars
    /\ UNCHANGED table_vars
    /\ UNCHANGED magic
    /\ UNCHANGED race_vars
    /\ UNCHANGED app_vars

\* check_file_risk runs to its return
Run_check_file_risk ==
    /\ pc = "called" /\ op = "check_file_risk"
    /\ \E o \in check_file_risk(file_path, mime_type, str_hash_order) :
          /\ ret' = (IF o.raised THEN <<>> ELSE o.value)
          /\ exc' = (IF o.raised THEN o.error ELSE "")
          /\ str_hash_order' =
                order_after(file_path, mime_type, str_hash_order, ret')
    /\ calls' = file_risk_calls(file_path, mime_type)
    /\ pc' = "done"
    /\ UNCHANGED <<suffix, result, op, file_path, metadata, mime_type, findings, meta_ret,
                   struct_ret, report, has_prev, prev_out>>
    /\ UNCHANGED conc_vars
    /\ UNCHANGED table_vars
    /\ UNCHANGED magic
    /\ UNCHANGED race_vars
    /\ UNCHANGED app_vars

\* analyze_risk, step 1: findings.extend(check_metadata_risk(metadata))
analyze_risk_metadata ==
    /\ pc = "called" /\ op = "analyze_risk"
    /\ meta_ret' = check_metadata_risk(metadata)
    /\ findings' = list_extend(findings, meta_ret')
    /\ calls' = Append(calls, "check_metadata_risk")
    /\ pc' = "meta_done"
    /\ UNCHANGED <<suffix, result, exc, op, file_path, metadata, mime_type, struct_ret, ret,
                   report, str_hash_order, has_prev, prev_out>>
    /\ UNCHANGED conc_vars
    /\ UNCHANGED table_vars
    /\ UNCHANGED magic
    /\ UNCHANGED race_vars
    /\ UNCHANGED app_vars

\* analyze_risk, step 2: findings.extend(check_file_risk(file_path, mime_type));
\* an exception of check_file_risk leaves analyze_risk
analyze_risk_structure ==
    /\ pc = "meta_done" /\ op = "analyze_risk"
    /\ \E o \in check_file_risk(file_path, mime_type, str_hash_order) :
          IF o.raised
          THEN /\ exc' = o.error
               /\ pc' = "done"
               /\ UNCHANGED <<struct_ret, findings, str_hash_order>>
          ELSE /\ struct_ret' = o.value
               /\ findings' = list_extend(findings, o.value)
               /\ str_hash_order' =
                     order_after(file_path, mime_type, str_hash_order, o.value)
               /\ pc' = "struct_done"
               /\ UNCHANGED exc
    /\ calls' = calls \o <<"check_file_risk">>
                      \o file_risk_calls(file_path, mime_type)
    /\ UNCHANGED <<suffix, result, op, file_path, metadata, mime_type, meta_ret, ret, report,
                   has_prev, prev_out>>
    /\ UNCHANGED conc_vars
    /\ UNCHANGED table_vars
    /\ UNCHANGED magic
    /\ UNCHANGED race_vars
    /\ UNCHANGED app_vars

\* analyze_risk, step 3: the report is built and returned
analyze_risk_return ==
    /\ pc = "struct_done" /\ op = "analyze_risk"
    /\ report' = risk_report(findings)
    /\ pc' = "done"
    /\ UNCHANGED <<suffix, result, exc, calls, op, file_path, metadata, mime_type, findings,
                   meta_ret, struct_ret, ret, str_hash_order, has_prev, prev_out>>
    /\ UNCHANGED conc_vars
    /\ UNCHANGED table_vars
    /\ UNCHANGED magic
    /\ UNCHANGED race_vars
    /\ UNCHANGED app_vars

Call_get_mime_type ==
    /\ pc = "idle"
    /\ \E f \in ExtractFiles, sfx \in Suffixes :
          /\ Enter("get_mime_type", f, Dict(<<>>), "")
          /\ suffix' = sfx
    /\ UNCHANGED <<str_hash_order, has_prev, prev_out>>
    /\ UNCHANGED conc_vars
    /\ UNCHANGED table_vars
    /\ UNCHANGED app_vars

\* get_mime_type runs to its return; mime_type holds what it returned
Run_get_mime_type ==
    /\ pc = "called" /\ op = "get_mime_type"
    /\ \E m \in magic_file(file_path) :
          LET o == get_mime_type(file_path, suffix, m)
          IN  /\ magic' = m
              /\ mime_type' = (IF o.raised THEN "" ELSE o.value)
              /\ exc' = (IF o.raised THEN o.error ELSE "")
    /\ calls' = <<"ensure_readable_file">>
                  \o (IF ensure_readable_file(file_path).raised THEN <<>>
                      ELSE <<"magic_file">>)
    /\ pc' = "done"
    /\ UNCHANGED <<op, file_path, metadata, findings, meta_ret, struct_ret, ret,
                   report, suffix, result, str_hash_order, has_prev, prev_out>>
    /\ UNCHANGED conc_vars
    /\ UNCHANGED table_vars
    /\ UNCHANGED race_vars
    /\ UNCHANGED app_vars

Call_extract_metadata_auto ==
    /\ pc = "idle"
    /\ \E f \in ExtractFiles, sfx \in Suffixes :
          /\ Enter("extract_metadata_auto", f, Dict(<<>>), "")
          /\ suffix' = sfx
    /\ UNCHANGED <<str_hash_order, has_prev, prev_out>>
    /\ UNCHANGED conc_vars
    /\ UNCHANGED table_vars
    /\ UNCHANGED app_vars

\* extract_metadata_auto, step 1: safe_path = ensure_readable_file(file_path)
extract_validate ==
    /\ pc = "called" /\ op = "extract_metadata_auto"
    /\ calls' = Append(calls, "ensure_readable_file")
    /\ IF ensure_readable_file(file_path).raised
       THEN exc' = ensure_readable_file(file_path).error /\ pc' = "done"
       ELSE exc' = exc /\ pc' = "validated"
    /\ UNCHANGED <<op, file_path, metadata, mime_type, findings, meta_ret,
                   struct_ret, ret, report, suffix, result, str_hash_order,
                   has_prev, prev_out>>
    /\ UNCHANGED conc_vars
    /\ UNCHANGED table_vars
    /\ UNCHANGED magic
    /\ UNCHANGED race_vars
    /\ UNCHANGED app_vars

\* step 2: if safe_path.stat().st_size == 0: return the empty-file result
extract_size ==
    /\ pc = "validated" /\ op = "extract_metadata_auto"
    /\ calls' = Append(calls, "stat")
    /\ IF removed
       THEN exc' = "FileNotFoundError" /\ result' = result /\ pc' = "done"
       ELSE IF st_size(file_path) = 0
            THEN exc' = exc /\ result' = empty_result(suffix) /\ pc' = "done"
            ELSE exc' = exc /\ result' = result /\ pc' = "sized"
    /\ UNCHANGED <<op, file_path, metadata, mime_type, findings, meta_ret,
                   struct_ret, ret, report, suffix, str_hash_order,
                   has_prev, prev_out>>
    /\ UNCHANGED conc_vars
    /\ UNCHANGED table_vars
    /\ UNCHANGED magic
    /\ UNCHANGED race_vars
    /\ UNCHANGED app_vars

\* step 3: mime_type = get_mime_type(safe_path), None replaced, and the
\* result dict built
extract_detect ==
    /\ pc = "sized" /\ op = "extract_metadata_auto"
    /\ calls' = Append(calls, "get_mime_type")
    /\ \E m \in magic_file(current_file) :
          LET o == get_mime_type(current_file, suffix, m)
          IN  /\ magic' = m
              /\ IF o.raised
                 THEN /\ exc' = o.error
                      /\ pc' = "done"
                      /\ UNCHANGED <<mime_type, result>>
                 ELSE /\ mime_type' = (IF o.value = None
                                       THEN "application/octet-stream" ELSE o.value)
                      /\ result' = new_result(mime_type', suffix)
                      /\ pc' = "typed"
                      /\ UNCHANGED exc
    /\ UNCHANGED <<op, file_path, metadata, findings, meta_ret, struct_ret, ret,
                   report, suffix, str_hash_order, has_prev, prev_out>>
    /\ UNCHANGED conc_vars
    /\ UNCHANGED table_vars
    /\ UNCHANGED race_vars
    /\ UNCHANGED app_vars

\* step 4: result["metadata"] = the extractor of the type; an exception of
\* the extractor goes to the except of extract_metadata_auto
extract_extract ==
    /\ pc = "typed" /\ op = "extract_metadata_auto"
    /\ calls' = (IF extractor(mime_type) = "none" THEN calls
                 ELSE Append(calls, extractor(mime_type)))
    /\ \E o \in extract_dispatch(current_file, mime_type) :
          IF o.raised
          THEN /\ caught' = o.error
               /\ result' = extract_except(result, o.error)
               /\ pc' = "done"
               /\ UNCHANGED metadata
          ELSE /\ metadata' = o.value
               /\ result' = [result EXCEPT !.metadata = o.value]
               /\ pc' = "extracted"
               /\ UNCHANGED caught
    /\ UNCHANGED removed
    /\ UNCHANGED <<op, file_path, mime_type, findings, meta_ret, struct_ret, ret,
                   report, exc, suffix, str_hash_order, has_prev, prev_out>>
    /\ UNCHANGED conc_vars
    /\ UNCHANGED table_vars
    /\ UNCHANGED magic
    /\ UNCHANGED app_vars

\* step 5: security_report = analyze_risk(safe_path, result["metadata"],
\* mime_type); an exception goes to the except of extract_metadata_auto
extract_analyze ==
    /\ pc = "extracted" /\ op = "extract_metadata_auto"
    /\ calls' = Append(calls, "analyze_risk")
    /\ meta_ret' = check_metadata_risk(metadata)
    /\ \E o \in check_file_risk(current_file, mime_type, str_hash_order) :
          IF o.raised
          THEN /\ caught' = o.error
               /\ result' = extract_except(result, o.error)
               /\ pc' = "done"
               /\ UNCHANGED <<struct_ret, findings, report, str_hash_order>>
          ELSE /\ struct_ret' = o.value
               /\ findings' = list_extend(list_extend(<<>>, meta_ret'), o.value)
               /\ report' = risk_report(findings')
               /\ str_hash_order' =
                     order_after(current_file, mime_type, str_hash_order, o.value)
               /\ pc' = "analyzed"
               /\ UNCHANGED <<result, caught>>
    /\ UNCHANGED removed
    /\ UNCHANGED <<op, file_path, metadata, mime_type, ret, exc, suffix,
                   has_prev, prev_out>>
    /\ UNCHANGED conc_vars
    /\ UNCHANGED table_vars
    /\ UNCHANGED magic
    /\ UNCHANGED app_vars

\* step 6: the report is attached when it is suspicious; return result
extract_return ==
    /\ pc = "analyzed" /\ op = "extract_metadata_auto"
    /\ result' = attach_security(result, report)
    /\ pc' = "done"
    /\ UNCHANGED <<op, file_path, metadata, mime_type, findings, meta_ret,
                   struct_ret, ret, report, exc, calls, suffix, str_hash_order,
                   has_prev, prev_out>>
    /\ UNCHANGED conc_vars
    /\ UNCHANGED table_vars
    /\ UNCHANGED magic
    /\ UNCHANGED race_vars
    /\ UNCHANGED app_vars

\* another process deletes the file while extract_metadata_auto runs
file_removed ==
    /\ op = "extract_metadata_auto"
    /\ pc \in {"validated", "sized", "typed", "extracted"}
    /\ ~removed
    /\ removed' = TRUE
    /\ UNCHANGED <<op, pc, file_path, metadata, mime_type, findings, meta_ret,
                   struct_ret, ret, report, exc, calls, suffix, magic, result,
                   caught, str_hash_order, has_prev, prev_out>>
    /\ UNCHANGED conc_vars
    /\ UNCHANGED table_vars
    /\ UNCHANGED app_vars

\* the caller runs the same function again on identical arguments
CallAgain ==
    /\ pc = "done"
    /\ has_prev' = TRUE
    /\ prev_out' = Output
    /\ IF op \in {"extract_metadata_auto", "get_mime_type"}
       THEN Enter(op, file_path, Dict(<<>>), "")
       ELSE Enter(op, file_path, metadata, mime_type)
    /\ UNCHANGED <<suffix, str_hash_order>>
    /\ UNCHANGED conc_vars
    /\ UNCHANGED table_vars
    /\ UNCHANGED app_vars

\* the program is started again (a new interpreter process, with a new
\* string-hash seed); the caller still holds the last result
Restart ==
    /\ pc = "done"
    /\ str_hash_order # NoOrder
    /\ str_hash_order' = NoOrder
    /\ UNCHANGED <<suffix, result, calls, exc, op, pc, file_path, metadata, mime_type, findings, meta_ret,
                   struct_ret, ret, report, has_prev, prev_out>>
    /\ UNCHANGED conc_vars
    /\ UNCHANGED table_vars
    /\ UNCHANGED magic
    /\ UNCHANGED race_vars
    /\ UNCHANGED app_vars

\* the caller drops the result and the process ends
Exit ==
    /\ pc = "done"
    /\ op' = "none"
    /\ pc' = "idle"
    /\ file_path' = Unreadable
    /\ metadata' = Dict(<<>>)
    /\ mime_type' = ""
    /\ findings' = <<>>
    /\ meta_ret' = <<>>
    /\ struct_ret' = <<>>
    /\ ret' = <<>>
    /\ report' = NoReport
    /\ exc' = ""
    /\ suffix' = ""
    /\ calls' = <<>>
    /\ magic' = Ok(<<>>)
    /\ removed' = FALSE
    /\ caught' = ""
    /\ result' = NoResult
    /\ str_hash_order' = NoOrder
    /\ has_prev' = FALSE
    /\ prev_out' = <<>>
    /\ UNCHANGED conc_vars
    /\ UNCHANGED table_vars
    /\ UNCHANGED app_vars

Next ==
    \/ Call_scan_pdf_structure
    \/ Call_scan_office_structure
    \/ Call_check_metadata_risk
    \/ Call_check_file_risk
    \/ Call_analyze_risk
    \/ Run_scan_pdf_structure
    \/ Run_scan_office_structure
    \/ Run_check_metadata_risk
    \/ Run_check_file_risk
    \/ analyze_risk_metadata
    \/ analyze_risk_structure
    \/ analyze_risk_return
    \/ Call_get_mime_type
    \/ Run_get_mime_type
    \/ Call_extract_metadata_auto
    \/ extract_validate
    \/ extract_size
    \/ extract_detect
    \/ extract_extract
    \/ extract_return
    \/ extract_analyze
    \/ file_removed
    \/ CallAgain
    \/ Restart
    \/ Exit

Spec == Init /\ [][Next]_vars

(***************************************************************************)
(* Threads of one process, each calling analyze_risk for its own file.     *)
(***************************************************************************)
\* thread t calls analyze_risk for a file no running call scans
conc_call(t) ==
    /\ th_pc[t] = "idle"
    /\ \E c \in ConcCalls :
          /\ \A u \in Threads \ {t} : th_call[u].file_path # c.file_path
          /\ th_call' = [th_call EXCEPT ![t] = c]
    /\ th_pc' = [th_pc EXCEPT ![t] = "entered"]
    /\ UNCHANGED <<heap, th_findings, th_indicators, th_pending, th_report>>
    /\ UNCHANGED <<seq_vars, str_hash_order>>
    /\ UNCHANGED table_vars
    /\ UNCHANGED app_vars

\* analyze_risk: findings = []
conc_findings(t) ==
    /\ th_pc[t] = "entered"
    /\ th_findings' = [th_findings EXCEPT ![t] = new_list(heap, t)]
    /\ heap' = alloc(heap, th_findings'[t])
    /\ th_pc' = [th_pc EXCEPT ![t] = "meta_call"]
    /\ UNCHANGED <<th_call, th_indicators, th_pending, th_report>>
    /\ UNCHANGED <<seq_vars, str_hash_order>>
    /\ UNCHANGED table_vars
    /\ UNCHANGED app_vars

\* check_metadata_risk: indicators = [], and recursive_scan(metadata) starts;
\* the appends it will make are fixed by the tree and the path strings
conc_meta_enter(t) ==
    /\ th_pc[t] = "meta_call"
    /\ th_indicators' = [th_indicators EXCEPT ![t] = new_list(heap, t)]
    /\ heap' = alloc(heap, th_indicators'[t])
    /\ th_pending' = [th_pending EXCEPT ![t] = check_metadata_risk(th_call[t].metadata)]
    /\ th_pc' = [th_pc EXCEPT ![t] = "meta_scan"]
    /\ UNCHANGED <<th_call, th_findings, th_report>>
    /\ UNCHANGED <<seq_vars, str_hash_order>>
    /\ UNCHANGED table_vars
    /\ UNCHANGED app_vars

\* recursive_scan: one indicators.append(...)
conc_meta_append(t) ==
    /\ th_pc[t] = "meta_scan"
    /\ th_pending[t] # <<>>
    /\ heap' = heap_append(heap, th_indicators[t], Head(th_pending[t]))
    /\ th_pending' = [th_pending EXCEPT ![t] = Tail(@)]
    /\ UNCHANGED <<th_pc, th_call, th_findings, th_indicators, th_report>>
    /\ UNCHANGED <<seq_vars, str_hash_order>>
    /\ UNCHANGED table_vars
    /\ UNCHANGED app_vars

\* return indicators; findings.extend(...)
conc_meta_return(t) ==
    /\ th_pc[t] = "meta_scan"
    /\ th_pending[t] = <<>>
    /\ heap' = heap_extend(heap, th_findings[t], heap[th_indicators[t]])
    /\ th_pc' = [th_pc EXCEPT ![t] = "struct_call"]
    /\ UNCHANGED <<th_call, th_findings, th_indicators, th_pending, th_report>>
    /\ UNCHANGED <<seq_vars, str_hash_order>>
    /\ UNCHANGED table_vars
    /\ UNCHANGED app_vars

\* check_file_risk: indicators = []
conc_struct_enter(t) ==
    /\ th_pc[t] = "struct_call"
    /\ th_indicators' = [th_indicators EXCEPT ![t] = new_list(heap, t)]
    /\ heap' = alloc(heap, th_indicators'[t])
    /\ th_pc' = [th_pc EXCEPT ![t] = "struct_scan"]
    /\ UNCHANGED <<th_call, th_findings, th_pending, th_report>>
    /\ UNCHANGED <<seq_vars, str_hash_order>>
    /\ UNCHANGED table_vars
    /\ UNCHANGED app_vars

\* check_file_risk: indicators.extend(scan(file_path)), or the except
\* branch's append
conc_struct_scan(t) ==
    /\ th_pc[t] = "struct_scan"
    /\ \E o \in check_file_risk(th_call[t].file_path, th_call[t].mime_type,
                                str_hash_order) :
          IF o.raised
          THEN /\ th_pc' = [th_pc EXCEPT ![t] = "raised"]
               /\ UNCHANGED <<heap, str_hash_order>>
          ELSE /\ heap' = heap_extend(heap, th_indicators[t], o.value)
               /\ str_hash_order' =
                     order_after(th_call[t].file_path, th_call[t].mime_type,
                                 str_hash_order, o.value)
               /\ th_pc' = [th_pc EXCEPT ![t] = "struct_ret"]
    /\ UNCHANGED <<th_call, th_findings, th_indicators, th_pending, th_report>>
    /\ UNCHANGED seq_vars
    /\ UNCHANGED table_vars
    /\ UNCHANGED app_vars

\* return indicators; findings.extend(...)
conc_struct_return(t) ==
    /\ th_pc[t] = "struct_ret"
    /\ heap' = heap_extend(heap, th_findings[t], heap[th_indicators[t]])
    /\ th_pc' = [th_pc EXCEPT ![t] = "built"]
    /\ UNCHANGED <<th_call, th_findings, th_indicators, th_pending, th_report>>
    /\ UNCHANGED <<seq_vars, str_hash_order>>
    /\ UNCHANGED table_vars
    /\ UNCHANGED app_vars

\* analyze_risk: the report is built from findings and returned
conc_return(t) ==
    /\ th_pc[t] = "built"
    /\ th_report' = [th_report EXCEPT ![t] = risk_report(heap[th_findings[t]])]
    /\ th_pc' = [th_pc EXCEPT ![t] = "done"]
    /\ UNCHANGED <<heap, th_call, th_findings, th_indicators, th_pending>>
    /\ UNCHANGED <<seq_vars, str_hash_order>>
    /\ UNCHANGED table_vars
    /\ UNCHANGED app_vars

\* every thread has finished and the process ends
ConcExit ==
    /\ \A t \in Threads : th_pc[t] \in {"done", "raised"}
    /\ heap' = <<>>
    /\ th_pc' = [t \in Threads |-> "idle"]
    /\ th_call' = [t \in Threads |-> NoCall]
    /\ th_findings' = [t \in Threads |-> NoRef]
    /\ th_indicators' = [t \in Threads |-> NoRef]
    /\ th_pending' = [t \in Threads |-> <<>>]
    /\ th_report' = [t \in Threads |-> NoReport]
    /\ str_hash_order' = NoOrder
    /\ UNCHANGED seq_vars
    /\ UNCHANGED table_vars
    /\ UNCHANGED app_vars

NextConc ==
    \/ \E t \in Threads : conc_call(t)
    \/ \E t \in Threads : conc_findings(t)
    \/ \E t \in Threads : conc_meta_enter(t)
    \/ \E t \in Threads : conc_meta_append(t)
    \/ \E t \in Threads : conc_meta_return(t)
    \/ \E t \in Threads : conc_struct_enter(t)
    \/ \E t \in Threads : conc_struct_scan(t)
    \/ \E t \in Threads : conc_struct_return(t)
    \/ \E t \in Threads : conc_return(t)
    \/ ConcExit

SpecConc == Init /\ [][NextConc]_vars

(***************************************************************************)
(* Properties.  The expected indicator texts are written out literally.    *)
(***************************************************************************)
AnalyzeReturned == pc = "done" /\ op = "analyze_risk" /\ exc = ""

\* scan_pdf_structure has returned for a file whose bytes could be read
PdfScanned ==
    /\ pc = "done" /\ op = "scan_pdf_structure"
    /\ ~read_bytes(file_path).raised

\* the bytes the finished PDF scan has read
PdfBytes == read_bytes(file_path).value

\* scan_office_structure has finished on a valid ZIP container
OfficeScannedZip ==
    /\ pc = "done" /\ op = "scan_office_structure"
    /\ file_path.kind = "zip"

JavaScriptInd == "Estructura PDF sospechosa: Contiene codigo JavaScript (/JavaScript)"
JSInd == "Estructura PDF sospechosa: Contiene codigo JavaScript (/JS)"
LaunchInd == "Estructura PDF sospechosa: Intenta lanzar un programa externo (/Launch)"
RichMediaInd ==
    "Estructura PDF sospechosa: Contenido multimedia enriquecido (posible vector de ataque) (/RichMedia)"
CombinedInd ==
    "Estructura PDF sospechosa: Ejecuta una accion al abrir el documento combinada con scripts/lanzadores"

\* the indicator that names each keyword reported on its own
KeywordInd ==
    [k \in {"/JavaScript", "/JS", "/Launch", "/RichMedia"} |->
        CASE k = "/JavaScript" -> JavaScriptInd
          [] k = "/JS" -> JSInd
          [] k = "/Launch" -> LaunchInd
          [] k = "/RichMedia" -> RichMediaInd]

\* the bytes hold a script or launcher keyword
HasScriptOrLauncher(bytes) ==
    \E k \in {"/JavaScript", "/JS", "/Launch"} : Contains(k, bytes)

\* C1: every report analyze_risk returns, whatever the metadata, the file
\* (unreadable and corrupt ones included) and the MIME type, has
\* is_suspicious true exactly when its indicators list is non-empty.
C1_SuspiciousIffIndicators ==
    AnalyzeReturned => (report.is_suspicious <=> report.indicators # <<>>)

C1_Witness ==
    /\ AnalyzeReturned
    /\ file_path = CorruptZip
    /\ mime_type = MimeDocx
    /\ report.is_suspicious
    /\ Len(report.indicators) = 1

\* C2: the indicators of the report are the list check_metadata_risk
\* returned followed by the list check_file_risk returned, position by
\* position: nothing reordered, dropped or added.
C2_MetadataThenStructure ==
    AnalyzeReturned =>
        /\ Len(report.indicators) = Len(meta_ret) + Len(struct_ret)
        /\ \A i \in 1..Len(meta_ret) : report.indicators[i] = meta_ret[i]
        /\ \A j \in 1..Len(struct_ret) :
              report.indicators[Len(meta_ret) + j] = struct_ret[j]

C2_Witness ==
    /\ AnalyzeReturned
    /\ Len(meta_ret) >= 2
    /\ Len(struct_ret) >= 2
    /\ Range(meta_ret) \cap Range(struct_ret) = {}

\* C3 as stated: bytes with /OpenAction and none of /JavaScript, /JS,
\* /Launch yield zero indicators from scan_pdf_structure.
C3_Original ==
    (/\ PdfScanned
     /\ Contains("/OpenAction", PdfBytes)
     /\ ~HasScriptOrLauncher(PdfBytes))
        => ret = <<>>

\* C3 (amended): bytes with /OpenAction and none of /JavaScript, /JS,
\* /Launch yield no indicator for /OpenAction: the result is empty, or holds
\* only the /RichMedia indicator when /RichMedia occurs in the bytes.
C3_OpenActionAloneSilent ==
    (/\ PdfScanned
     /\ Contains("/OpenAction", PdfBytes)
     /\ ~HasScriptOrLauncher(PdfBytes))
        => ret = (IF Contains("/RichMedia", PdfBytes) THEN <<RichMediaInd>> ELSE <<>>)

C3_Witness ==
    /\ PdfScanned
    /\ Contains("/OpenAction", PdfBytes)
    /\ Contains("jsPDF", PdfBytes)
    /\ ~HasScriptOrLauncher(PdfBytes)
    /\ ~Contains("/RichMedia", PdfBytes)
    /\ ret = <<>>

\* C4 as stated: bytes with both /OpenAction and /JavaScript yield exactly
\* one indicator, the combined one.
C4_Original ==
    (/\ PdfScanned
     /\ Contains("/OpenAction", PdfBytes)
     /\ Contains("/JavaScript", PdfBytes))
        => ret = <<CombinedInd>>

\* C4 (amended): bytes with both /OpenAction and /JavaScript yield the
\* combined indicator exactly once, next to the /JavaScript indicator
\* (once) and the indicator of every other keyword present; with no other
\* keyword that is two indicators.
C4_OneCombinedIndicator ==
    (/\ PdfScanned
     /\ Contains("/OpenAction", PdfBytes)
     /\ Contains("/JavaScript", PdfBytes))
        => /\ Count(ret, CombinedInd) = 1
           /\ Count(ret, JavaScriptInd) = 1
           /\ Len(ret) = 2 + Cardinality({k \in {"/JS", "/Launch", "/RichMedia"} :
                                            Contains(k, PdfBytes)})

C4_Witness ==
    /\ PdfScanned
    /\ PdfBytes = "/OpenAction/JavaScript"
    /\ Len(ret) = 2
    /\ CombinedInd \in Range(ret)

\* C5: for each keyword k of /JS, /JavaScript, /Launch, /RichMedia the
\* result holds the indicator naming k exactly when k occurs in the bytes,
\* with or without /OpenAction; bytes whose only keyword is /Launch give
\* the /Launch indicator and nothing else.
C5_KeywordIffPresent ==
    PdfScanned =>
        /\ \A k \in DOMAIN KeywordInd :
              (KeywordInd[k] \in Range(ret)) <=> Contains(k, PdfBytes)
        /\ (/\ Contains("/Launch", PdfBytes)
            /\ \A k \in {"/JavaScript", "/JS", "/OpenAction", "/RichMedia"} :
                  ~Contains(k, PdfBytes))
              => ret = <<LaunchInd>>

C5_Witness ==
    /\ PdfScanned
    /\ PdfBytes = "jsPDF/Launch"
    /\ ret = <<LaunchInd>>

\* C6: the result holds the combined /OpenAction indicator exactly when the
\* bytes hold /OpenAction and one of /JavaScript, /JS, /Launch; no other
\* indicator mentions the /OpenAction keyword or its description.
C6_OpenActionOnlyCombined ==
    PdfScanned =>
        /\ (CombinedInd \in Range(ret))
              <=> (Contains("/OpenAction", PdfBytes) /\ HasScriptOrLauncher(PdfBytes))
        /\ \A i \in 1..Len(ret) :
              (\/ Contains("/OpenAction", ret[i])
               \/ Contains("Ejecuta una accion al abrir el documento", ret[i]))
                  => ret[i] = CombinedInd

C6_Witness ==
    /\ PdfScanned
    /\ PdfBytes = "/OpenAction/JS"
    /\ CombinedInd \in Range(ret)

\* C7: a call repeated on identical arguments returns the identical list of
\* indicators, in the same order.
C7_SameInputSameOutput ==
    (pc = "done" /\ has_prev) => Output = prev_out

\* C8: on a valid ZIP container the VBA-macro indicator is returned once
\* when some entry name ends with vbaProject.bin and not at all otherwise.
C8_VbaIndicatorOnce ==
    OfficeScannedZip =>
        Count(ret, "Contiene Macros VBA (vbaProject.bin)")
            = (IF \E i \in 1..Len(file_path.names) :
                     \E n \in 0..Len(file_path.names[i]) :
                        file_path.names[i]
                            = SubSeq(file_path.names[i], 1, n) \o "vbaProject.bin"
               THEN 1 ELSE 0)

C8_Witness ==
    /\ OfficeScannedZip
    /\ Count(file_path.names, "word/vbaProject.bin") >= 2
    /\ Count(ret, "Contiene Macros VBA (vbaProject.bin)") = 1

\* the text of an indicator that reports embedded OLE objects
IsOleIndicator(e) == Contains("objeto(s) OLE incrustado(s)", e)

\* the number of entry names holding embeddings/oleObject
OleEntryCount(names) ==
    Cardinality({i \in 1..Len(names) : Contains("embeddings/oleObject", names[i])})

\* C9: on a valid ZIP container with N entries whose names contain
\* embeddings/oleObject the result holds one OLE indicator, carrying N, when
\* N >= 1 and none when N = 0.
C9_OneOleIndicatorWithCount ==
    OfficeScannedZip =>
        LET N == OleEntryCount(file_path.names)
            oles == {i \in 1..Len(ret) : IsOleIndicator(ret[i])}
        IN  IF N = 0 THEN oles = {}
            ELSE /\ Cardinality(oles) = 1
                 /\ \A i \in oles :
                       ret[i] = "Contiene " \o ToString(N) \o " objeto(s) OLE incrustado(s)"

C9_Witness ==
    /\ OfficeScannedZip
    /\ Cardinality(Range(file_path.names)) = 3
    /\ OleEntryCount(file_path.names) = 3
    /\ ret = <<"Contiene 3 objeto(s) OLE incrustado(s)">>

\* C10: on a file that is not a valid ZIP container, or whose archive cannot
\* be read, scan_office_structure returns the empty list and raises nothing.
C10_NonZipEmptyNoError ==
    (pc = "done" /\ op = "scan_office_structure" /\ file_path.kind # "zip")
        => (exc = "" /\ ret = <<>>)

C10_Witness ==
    /\ pc = "done" /\ op = "scan_office_structure"
    /\ file_path = CorruptZip
    /\ exc = ""
    /\ ret = <<>>

FileRiskReturned == pc = "done" /\ op = "check_file_risk"

\* C11: check_file_risk dispatches on the MIME type alone: application/pdf
\* runs the PDF scan, the three OOXML types run the Office scan, and every
\* other type returns the empty list with no scan called and no file access,
\* whatever the file is.
C11_DispatchOnMimeOnly ==
    FileRiskReturned =>
        IF mime_type = "application/pdf"
        THEN Len(calls) >= 1 /\ calls[1] = "scan_pdf_structure"
        ELSE IF mime_type \in
                  {"application/vnd.openxmlformats-officedocument.wordprocessingml.document",
                   "application/vnd.openxmlformats-officedocument.spreadsheetml.sheet",
                   "application/vnd.openxmlformats-officedocument.presentationml.presentation"}
             THEN Len(calls) >= 1 /\ calls[1] = "scan_office_structure"
             ELSE calls = <<>> /\ ret = <<>> /\ exc = ""

C11_Witness ==
    /\ FileRiskReturned
    /\ mime_type = "application/msword"
    /\ file_path = ZipFile(<<"word/vbaProject.bin">>)
    /\ calls = <<>>
    /\ ret = <<>>

ReadFails ==
    \/ mime_type = MimePdf /\ file_path \in {Missing, Unreadable}
    \/ mime_type \in OfficeMimes /\ file_path = CorruptZip

\* C12: when reading the file fails during the structural scan (the PDF
\* cannot be opened, the OOXML archive is corrupt) check_file_risk returns
\* exactly one indicator, which describes the failure.
C12_ReadFailureOneIndicator ==
    (FileRiskReturned /\ ReadFails) =>
        /\ exc = ""
        /\ Len(ret) = 1
        /\ Contains("Error al analizar estructura del archivo", ret[1])

\* C13: analyze_risk raises nothing for the expected failures: with any
\* metadata tree, a missing or unreadable file or a corrupt archive under
\* any MIME type still ends in a returned report.
C13_AnalyzeNeverRaises ==
    (pc = "done" /\ op = "analyze_risk") =>
        (exc = "" /\ report.indicators = findings)

C13_Witness ==
    /\ AnalyzeReturned
    /\ file_path = Missing
    /\ mime_type = "application/pdf"
    /\ report # NoReport
    /\ calls = <<"check_metadata_risk", "check_file_risk",
                 "scan_pdf_structure", "open">>

MetadataScanned == pc = "done" /\ op = "check_metadata_risk"

\* the string leaves of a metadata tree with their paths, through mappings,
\* lists and tuples alike
RECURSIVE StringLeaves(_, _)
RECURSIVE LeavesOfItems(_, _, _)
RECURSIVE LeavesOfElems(_, _, _)
StringLeaves(value, path) ==
    CASE value.t = "dict" -> LeavesOfItems(value.items, path, 1)
      [] value.t \in {"list", "tuple"} -> LeavesOfElems(value.elems, path, 1)
      [] value.t = "str" -> <<[leaf |-> value, path |-> path]>>
      [] OTHER -> <<>>

LeavesOfItems(items, path, i) ==
    IF i > Len(items) THEN <<>>
    ELSE StringLeaves(items[i].v, IF path = "" THEN items[i].k
                                  ELSE path \o "." \o items[i].k)
            \o LeavesOfItems(items, path, i + 1)

LeavesOfElems(elems, path, i) ==
    IF i > Len(elems) THEN <<>>
    ELSE StringLeaves(elems[i], path \o "[" \o ToString(i - 1) \o "]")
            \o LeavesOfElems(elems, path, i + 1)

\* the indicators of the result that name the path
About(indicators, path) ==
    SelectSeq(indicators, LAMBDA s : EndsWith(s, " en '" \o path \o "'"))

LongAbout(indicators, path) ==
    SelectSeq(indicators,
              LAMBDA s : Contains("Valor inusualmente largo en '" \o path \o "' (", s))

\* C14: check_metadata_risk emits a long-value indicator for a string leaf
\* exactly when the leaf is longer than 5000 characters, and the indicator
\* carries the path and the exact length of the leaf.
C14_LongValueIffOver5000 ==
    MetadataScanned =>
        \A i \in 1..Len(StringLeaves(metadata, "")) :
            LET l == StringLeaves(metadata, "")[i]
                n == Len(l.leaf.text) + l.leaf.pad
            IN  IF n > 5000
                THEN LongAbout(ret, l.path) =
                        <<"Valor inusualmente largo en '" \o l.path \o "' ("
                            \o ToString(n) \o " caracteres)">>
                ELSE LongAbout(ret, l.path) = <<>>

\* the descriptions of the table entries that match the text, one per
\* matching entry, in table order
MatchingDescriptions(text) ==
    CASE text = "<script>alert(1)</script>" ->
            <<"Posible inyeccion de script HTML">>
      [] text = "JavaScript:eval(x)" ->
            <<"Posible esquema URI de JavaScript",
              "Uso de eval() (ejecucion de codigo dinamico)">>
      [] text = "Document_Open auto_open" ->
            <<"Macro de auto-ejecucion (Office)",
              "Macro de auto-ejecucion (Office)">>
      [] OTHER -> <<>>

CleanTree(value) ==
    \A i \in 1..Len(StringLeaves(value, "")) :
        LET l == StringLeaves(value, "")[i]
        IN  /\ Len(l.leaf.text) + l.leaf.pad <= 5000
            /\ l.leaf.text \in {"Autor", "x"}

\* C16: for a metadata tree in which no string leaf is longer than 5000
\* characters and none matches a pattern, check_metadata_risk returns the
\* empty list; numbers, booleans and None never produce an indicator.
C16_CleanTreeNoIndicators ==
    (MetadataScanned /\ CleanTree(metadata)) => ret = <<>>

C16_Witness ==
    /\ MetadataScanned
    /\ metadata = Dict(<<Item("a", Scalar), Item("comment", Str("x", 4999))>>)
    /\ ret = <<>>

\* C17: check_metadata_risk visits every string leaf, at any depth and inside
\* every container the extractors produce, tuples included: a suspicious
\* string always yields an indicator that names its path.
C17_EveryStringLeafVisited ==
    MetadataScanned =>
        \A i \in 1..Len(StringLeaves(metadata, "")) :
            LET l == StringLeaves(metadata, "")[i]
            IN  (\/ Len(l.leaf.text) + l.leaf.pad > 5000
                 \/ MatchingDescriptions(l.leaf.text) # <<>>)
                    => \E j \in 1..Len(ret) : Contains("'" \o l.path \o "'", ret[j])

ExtractReturned == pc = "done" /\ op = "extract_metadata_auto" /\ exc = ""

\* C18: the result of extract_metadata_auto has a security_analysis entry
\* exactly when analyze_risk ran and returned is_suspicious = true for the
\* file, and the entry is that report; otherwise the result has no security
\* section.
C18_SecurityAnalysisIffSuspicious ==
    ExtractReturned =>
        LET suspicious ==
                /\ Len(calls) >= 1
                /\ calls[Len(calls)] = "analyze_risk"
                /\ report.is_suspicious
        IN  /\ ("security_analysis" \in DOMAIN result) <=> suspicious
            /\ suspicious => result.security_analysis = report

C18_Witness ==
    /\ ExtractReturned
    /\ file_path = ZipFile(<<"word/vbaProject.bin">>)
    /\ mime_type = MimeDocx
    /\ report.is_suspicious
    /\ "security_analysis" \in DOMAIN result
    /\ result.security_analysis.indicators =
          <<"Contiene Macros VBA (vbaProject.bin)">>

\* C19: when the path is missing or names no regular file,
\* extract_metadata_auto raises FileNotFoundError out of ensure_readable_file
\* and nothing else has run; in every call the validation is the first step.
C19_ValidationBeforeAnyScan ==
    op = "extract_metadata_auto" =>
        /\ calls # <<>> => calls[1] = "ensure_readable_file"
        /\ file_path.kind \in {"missing", "directory"} =>
              /\ Len(calls) <= 1
              /\ result = NoResult /\ report = NoReport
              /\ pc = "done" => exc = "FileNotFoundError"

C19_Witness ==
    /\ pc = "done" /\ op = "extract_metadata_auto"
    /\ file_path = Directory
    /\ exc = "FileNotFoundError"
    /\ calls = <<"ensure_readable_file">>

\* the reports the call returns when it runs alone
AloneReports(c) ==
    {risk_report(list_extend(list_extend(<<>>, check_metadata_risk(c.metadata)),
                             o.value)) :
        o \in check_file_risk(c.file_path, c.mime_type, NoOrder)}

\* C20: analyze_risk calls for different files that run concurrently, in any
\* interleaving, each return the report the same call returns when run
\* alone, and no call holds the findings or indicators list of another.
C20_ConcurrentCallsIsolated ==
    /\ \A t \in Threads :
          th_pc[t] = "done" => th_report[t] \in AloneReports(th_call[t])
    /\ \A t \in Threads, u \in Threads :
          (t # u /\ th_findings[t] # NoRef) =>
              /\ th_findings[t] # th_findings[u]
              /\ th_findings[t] # th_indicators[u]

C20_Witness ==
    /\ th_pc[1] = "done" /\ th_pc[2] = "done"
    /\ th_call[1].mime_type = MimePdf /\ th_call[2].mime_type = MimeDocx
    /\ th_findings[1] # th_findings[2]
    /\ heap[th_findings[1]] = th_report[1].indicators
    /\ heap[th_findings[2]] = th_report[2].indicators
    /\ Len(th_report[1].indicators) = 4
    /\ th_report[2].indicators =
          <<"Detectado 'Posible inyeccion de script HTML' en 'a[0]'",
            "Contiene Macros VBA (vbaProject.bin)">>

\* a scan function is running
ScanRunning ==
    \/ op \in {"check_metadata_risk", "check_file_risk", "scan_pdf_structure",
               "scan_office_structure", "analyze_risk"}
          /\ pc \in {"called", "meta_done", "struct_done"}
    \/ op = "extract_metadata_auto" /\ pc = "extracted"

\* C21: no scan operation modifies the metadata tree it is given, the
\* metadata pattern table or the PDF keyword table: after any sequence of
\* calls all three are as they were.
C21_ScansModifyNothing ==
    /\ [](pattern_table = SUSPICIOUS_METADATA_PATTERNS
            /\ keyword_table = PDF_THREAT_KEYWORDS)
    /\ [][ScanRunning => metadata' = metadata]_vars

C21_Witness ==
    /\ pc = "done" /\ op = "analyze_risk" /\ has_prev
    /\ Len(report.indicators) >= 3
    /\ metadata = Dict(<<Item("a", List(<<Str("JavaScript:eval(x)", 0)>>)),
                         Item("comment", Str("<script>alert(1)</script>", 0))>>)
    /\ Len(pattern_table) = 9
    /\ Len(keyword_table) = 5

KeyStep(k) == [kind |-> "key", key |-> k, index |-> 0]
IndexStep(i) == [kind |-> "index", key |-> "", index |-> i]

\* the positions of the string leaves the traversal reaches: the keys and
\* indices on the way from the root
RECURSIVE Positions(_)
Positions(value) ==
    CASE value.t = "dict" ->
            UNION {{<<KeyStep(value.items[i].k)>> \o p :
                        p \in Positions(value.items[i].v)} :
                    i \in 1..Len(value.items)}
      [] value.t = "list" ->
            UNION {{<<IndexStep(i - 1)>> \o p : p \in Positions(value.elems[i])} :
                    i \in 1..Len(value.elems)}
      [] value.t = "str" -> {<<>>}
      [] OTHER -> {}

\* the path recursive_scan has built when it stands at the position
RECURSIVE PathFrom(_, _, _)
PathFrom(pos, i, path) ==
    IF i > Len(pos) THEN path
    ELSE PathFrom(pos, i + 1,
                  IF pos[i].kind = "key" THEN DictPath(path, pos[i].key)
                  ELSE ListPath(path, pos[i].index))

PathOf(pos) == PathFrom(pos, 1, "")

\* the paths are built as stated: '.' joins keys, '[i]' marks an index, the
\* root has the empty path
PathsAsStated ==
    /\ PathOf(<<>>) = ""
    /\ PathOf(<<KeyStep("a")>>) = "a"
    /\ PathOf(<<KeyStep("a"), KeyStep("b")>>) = "a.b"
    /\ PathOf(<<KeyStep("a"), IndexStep(0), KeyStep("b")>>) = "a[0].b"
    /\ \A j \in 1..Len(ret) :
          \E p \in Positions(metadata) : Contains("'" \o PathOf(p) \o "'", ret[j])

\* C22 as stated: the path is built from the position of the leaf ('.'
\* between keys, '[i]' for an index, empty at the root), so that two
\* different leaf positions of one tree get different path strings.
C22_Original ==
    MetadataScanned =>
        /\ PathsAsStated
        /\ \A p \in Positions(metadata), q \in Positions(metadata) :
              p # q => PathOf(p) # PathOf(q)

\* no key of the tree is empty or holds '.' or '['
RECURSIVE PlainKeys(_)
PlainKeys(value) ==
    CASE value.t = "dict" ->
            \A i \in 1..Len(value.items) :
                /\ value.items[i].k # ""
                /\ ~Contains(".", value.items[i].k)
                /\ ~Contains("[", value.items[i].k)
                /\ PlainKeys(value.items[i].v)
      [] value.t \in {"list", "tuple"} ->
            \A i \in 1..Len(value.elems) : PlainKeys(value.elems[i])
      [] OTHER -> TRUE

\* C22 (amended): the path is built from the position of the leaf as stated;
\* two different leaf positions of one tree get different path strings when
\* no key of the tree is empty or holds '.' or '['.
C22_PathsDistinctForPlainKeys ==
    MetadataScanned =>
        /\ PathsAsStated
        /\ PlainKeys(metadata) =>
              \A p \in Positions(metadata), q \in Positions(metadata) :
                  p # q => PathOf(p) # PathOf(q)

C22_Witness ==
    /\ MetadataScanned
    /\ metadata = Dict(<<Item("b", Str("<script>alert(1)</script>", 0)),
                         Item("a", Dict(<<Item("b", Str("eval(", 0))>>))>>)
    /\ ret = <<"Detectado 'Posible inyeccion de script HTML' en 'b'",
               "Detectado 'Uso de eval() (ejecucion de codigo dinamico)' en 'a.b'">>

\* C23: the list scan_pdf_structure returns never holds the same indicator
\* twice, whatever the bytes of the file.
C23_PdfIndicatorsDistinct ==
    (pc = "done" /\ op = "scan_pdf_structure") =>
        \A i \in 1..Len(ret), j \in 1..Len(ret) : i # j => ret[i] # ret[j]

C23_Witness ==
    /\ PdfScanned
    /\ PdfBytes = "/JS/JS"
    /\ ret = <<"Estructura PDF sospechosa: Contiene codigo JavaScript (/JS)">>

\* the /JS, /JavaScript, /Launch and /RichMedia indicators of a result
ScriptIndicators(indicators) ==
    {indicators[i] : i \in 1..Len(indicators)}
        \cap {JavaScriptInd, JSInd, LaunchInd, RichMediaInd}

\* the same indicators in the results of the scan of a file with these bytes
ScriptIndicatorsOf(content) ==
    {ScriptIndicators(l) : l \in scan_pdf_structure(BytesFile(content), NoOrder)}

MimeResolved ==
    /\ pc = "done" /\ op = "get_mime_type"
    /\ exc = "" /\ ~magic.raised

\* the MIME type EXTENSIONES_MIME maps the lower-cased suffix to
MappedMime ==
    CASE suffix = ".docx" ->
            "application/vnd.openxmlformats-officedocument.wordprocessingml.document"
      [] suffix = ".XLSX" ->
            "application/vnd.openxmlformats-officedocument.spreadsheetml.sheet"
      [] suffix = ".txt" -> "text/plain"
      [] suffix = ".HEIC" -> "image/heif"

\* C25: get_mime_type returns None when the content matches nothing, the
\* match when there is one, and among several matches the one equal to the
\* MIME type mapped to the lower-cased extension of the file when there is
\* such a match, the first match otherwise.
C25_SniffingWithExtensionTieBreak ==
    MimeResolved =>
        LET matches == magic.value
        IN  CASE Len(matches) = 0 -> mime_type = "None"
              [] Len(matches) = 1 -> mime_type = matches[1]
              [] OTHER ->
                    IF \E i \in 1..Len(matches) : matches[i] = MappedMime
                    THEN mime_type = MappedMime
                    ELSE mime_type = matches[1]

C25_Witness ==
    /\ MimeResolved
    /\ suffix = ".HEIC"
    /\ magic.value = <<"image/heic", "image/heif">>
    /\ mime_type = "image/heif"

\* C26: for an existing file of 0 bytes extract_metadata_auto returns a
\* result with the MIME type application/x-empty and an info-only metadata
\* entry; MIME detection, the extractors and analyze_risk do not run, and
\* the result has no security_analysis entry.
C26_EmptyFileShortCircuit ==
    (pc = "done" /\ op = "extract_metadata_auto" /\ ~removed
        /\ file_path.kind = "bytes" /\ file_path.content = "") =>
        /\ exc = ""
        /\ result.mime_type = "application/x-empty"
        /\ result.metadata.t = "dict"
        /\ Len(result.metadata.items) = 1
        /\ result.metadata.items[1].k = "info"
        /\ calls = <<"ensure_readable_file", "stat">>
        /\ "security_analysis" \notin DOMAIN result

C26_Witness ==
    /\ pc = "done" /\ op = "extract_metadata_auto"
    /\ file_path = BytesFile("")
    /\ suffix = ".docx"
    /\ result.mime_type = "application/x-empty"
    /\ result.extension = ".docx"

\* extract_metadata_auto built its result and went on to the extractors
\* (the file existed and was not empty when the call began)
ExtractTryEntered ==
    /\ op = "extract_metadata_auto"
    /\ result # NoResult
    /\ result.mime_type # "application/x-empty"

\* C27: for an existing non-empty file extract_metadata_auto never
\* propagates an exception raised by an extractor or by analyze_risk: the
\* call returns a result whose metadata is the single entry 'error' holding
\* the exception's text, and that result has no security_analysis entry.
C27_ExtractorErrorsAreReported ==
    /\ ExtractTryEntered => exc = ""
    /\ (pc = "done" /\ op = "extract_metadata_auto" /\ caught # "") =>
          /\ ExtractTryEntered
          /\ ensure_readable_file(file_path).raised = FALSE
          /\ st_size(file_path) # 0
          /\ result.metadata = ErrorMetadata(caught)
          /\ Len(result.metadata.items) = 1
          /\ "security_analysis" \notin DOMAIN result

C27_Witness ==
    /\ pc = "done" /\ op = "extract_metadata_auto"
    /\ file_path = BytesFile("/OpenAction/JS")
    /\ mime_type = "application/pdf"
    /\ removed
    /\ caught = "FileNotFoundError"
    /\ calls[Len(calls)] = "extract_metadata_pdf"
    /\ result.metadata = ErrorMetadata("FileNotFoundError")
    /\ exc = ""

(***************************************************************************)
(* The operations of core/modify_metadata, one step per statement group.   *)
(***************************************************************************)

\* what the analysis functions hold
core_vars == <<seq_vars, str_hash_order, conc_vars, table_vars>>

\* is the path a regular file
is_file(path) == \E f \in fs : f.path = path

format_of(path) == (CHOOSE f \in fs : f.path = path).format

\* a caller invokes one of the six operations
modify_call ==
    /\ mod_pc = "idle"
    /\ \E o \in Modifiers, p \in GivenPaths, d \in Destinations :
          /\ mod_op' = o
          /\ mod_path' = p
          /\ destination' = d
    /\ mod_pc' = "called"
    /\ applications' = 1
    /\ prev_source' = NoPath
    /\ UNCHANGED <<fs, dirs, source_file, output_file, mod_exc, written>>
    /\ UNCHANGED core_vars
    /\ UNCHANGED cli_vars
    /\ UNCHANGED gui_vars

\* source_file = ensure_editable_file(file_path)
modify_validate ==
    /\ mod_pc = "called"
    /\ IF is_file(mod_path)
       THEN source_file' = mod_path /\ mod_pc' = "validated" /\ mod_exc' = mod_exc
       ELSE source_file' = source_file /\ mod_pc' = "done"
            /\ mod_exc' = "FileNotFoundError"
    /\ UNCHANGED <<fs, dirs, mod_op, mod_path, destination, output_file,
                   written, applications, prev_source>>
    /\ UNCHANGED core_vars
    /\ UNCHANGED cli_vars
    /\ UNCHANGED gui_vars

\* output_file = ensure_output_path(source_file, destination, suffix=...)
modify_target ==
    /\ mod_pc = "validated"
    /\ output_file' =
          ensure_output_path(source_file, destination, modifier_suffix(mod_op))
    /\ dirs' = dirs \cup {output_file'.parent}
    /\ mod_pc' = "targeted"
    /\ UNCHANGED <<fs, mod_op, mod_path, destination, source_file, mod_exc,
                   written, applications, prev_source>>
    /\ UNCHANGED core_vars
    /\ UNCHANGED cli_vars
    /\ UNCHANGED gui_vars

\* the source is read by the library of the format, the copy is written
modify_write ==
    /\ mod_pc = "targeted"
    /\ IF format_of(source_file) = modifier_format(mod_op)
       THEN /\ fs' = {f \in fs : f.path # output_file}
                       \cup {[path |-> output_file,
                              format |-> modifier_format(mod_op)]}
            /\ written' = Append(written, output_file)
            /\ mod_exc' = mod_exc
       ELSE /\ mod_exc' = "ReadError"
            /\ UNCHANGED <<fs, written>>
    /\ mod_pc' = "done"
    /\ UNCHANGED <<dirs, mod_op, mod_path, destination, source_file,
                   output_file, applications, prev_source>>
    /\ UNCHANGED core_vars
    /\ UNCHANGED cli_vars
    /\ UNCHANGED gui_vars

\* the caller applies the same operation to the file it was given back
modify_again ==
    /\ mod_pc = "done"
    /\ mod_exc = ""
    /\ applications < MaxApplications
    /\ mod_path' = output_file
    /\ destination' = NoPath
    /\ applications' = applications + 1
    /\ written' = <<>>
    /\ prev_source' = (IF destination = NoPath THEN source_file ELSE NoPath)
    /\ mod_pc' = "called"
    /\ UNCHANGED <<fs, dirs, mod_op, source_file, output_file, mod_exc>>
    /\ UNCHANGED core_vars
    /\ UNCHANGED cli_vars
    /\ UNCHANGED gui_vars

\* the caller is done with the files
modify_exit ==
    /\ mod_pc = "done"
    /\ fs' = InitialFiles
    /\ dirs' = {"/d"}
    /\ mod_pc' = "idle"
    /\ mod_op' = "none"
    /\ mod_path' = NoPath
    /\ destination' = NoPath
    /\ source_file' = NoPath
    /\ output_file' = NoPath
    /\ mod_exc' = ""
    /\ written' = <<>>
    /\ applications' = 0
    /\ prev_source' = NoPath
    /\ UNCHANGED core_vars
    /\ UNCHANGED cli_vars
    /\ UNCHANGED gui_vars

NextModify ==
    \/ modify_call
    \/ modify_validate
    \/ modify_target
    \/ modify_write
    \/ modify_again
    \/ modify_exit

SpecModify == Init /\ [][NextModify]_vars

\* an operation called without a destination has returned its output path
ModifyReturned ==
    mod_pc = "done" /\ mod_exc = "" /\ destination = NoPath

\* the file name the operation builds from the name of its source
OutputName ==
    path_stem(source_file.name) \o modifier_suffix(mod_op)
        \o path_suffix(source_file.name)

\* the output path is another path in the directory of the source, and the
\* only path written
WritesBesideSource ==
    /\ output_file.parent = source_file.parent
    /\ output_file # source_file
    /\ written = <<output_file>>
    /\ is_file(source_file)
    /\ format_of(source_file) = modifier_format(mod_op)

\* the output path, read back, has the extension of the source and its stem
\* followed by the suffix
SameExtensionLongerStem ==
    /\ modifier_suffix(mod_op) # ""
    /\ path_suffix(output_file.name) = path_suffix(source_file.name)
    /\ path_stem(output_file.name) =
          path_stem(source_file.name) \o modifier_suffix(mod_op)

\* C28 as stated: without a destination every operation writes to a path
\* with the directory and the extension of the source and the stem followed
\* by '_clean' or '_custom', never to the source.
C28_Original ==
    ModifyReturned => (WritesBesideSource /\ SameExtensionLongerStem)

\* C28: without a destination every wipe_* and apply_custom_* operation
\* writes to the path in the directory of the source whose name is the stem
\* of the source, then '_clean' or '_custom', then the extension of the
\* source; that path differs from the source path and is the only one
\* written; its own extension and stem are those of the source, the stem
\* followed by the suffix, unless the source name ends with '.'; applied to
\* its own output the operation appends the suffix once more.
C28_OutputBesideSource ==
    ModifyReturned =>
        /\ WritesBesideSource
        /\ output_file.name = OutputName
        /\ Len(output_file.name)
              = Len(source_file.name) + Len(modifier_suffix(mod_op))
        /\ ~EndsWith(source_file.name, ".") => SameExtensionLongerStem
        /\ (prev_source # NoPath /\ ~EndsWith(prev_source.name, ".")) =>
              /\ source_file.name =
                    path_stem(prev_source.name) \o modifier_suffix(mod_op)
                        \o path_suffix(prev_source.name)
              /\ output_file.name =
                    path_stem(prev_source.name) \o modifier_suffix(mod_op)
                        \o modifier_suffix(mod_op)
                        \o path_suffix(prev_source.name)
              /\ output_file # prev_source

C28_Witness ==
    /\ ModifyReturned
    /\ mod_op = "wipe_metadata_pdf"
    /\ applications = 2
    /\ prev_source = Path("/d", "a.pdf")
    /\ source_file = Path("/d", "a_clean.pdf")
    /\ output_file = Path("/d", "a_clean_clean.pdf")
    /\ written = <<output_file>>

(***************************************************************************)
(* run_cli and the five flows.                                              *)
(***************************************************************************)

\* what the console menu leaves alone
not_cli_vars == <<core_vars, modify_vars, gui_vars>>

\* one turn of the while loop up to the call of the flow
cli_input ==
    /\ cli_pc = "menu"
    /\ Len(menu_inputs) < MaxPrompts
    /\ \E line \in MenuInputs :
          LET user_choice == strip(line)
              action == menu_options(user_choice)
          IN  /\ menu_inputs' = Append(menu_inputs, line)
              /\ IF user_choice = "6"
                 THEN /\ cli_printed' = "See you later!"
                      /\ cli_pc' = "stopped"
                      /\ UNCHANGED flows_run
                 ELSE IF action # None
                      THEN /\ cli_printed' = ""
                           /\ cli_pc' = "flow"
                           /\ flows_run' =
                                 Append(flows_run,
                                        [flow |-> action, end |-> Running])
                      ELSE /\ cli_printed' =
                                 "Invalid selection, please try again."
                           /\ cli_pc' = "menu"
                           /\ UNCHANGED flows_run
    /\ UNCHANGED cli_exc
    /\ UNCHANGED not_cli_vars

\* input() finds the standard input closed
cli_eof ==
    /\ cli_pc = "menu"
    /\ cli_exc' = "EOFError"
    /\ cli_pc' = "crashed"
    /\ UNCHANGED <<menu_inputs, flows_run, cli_printed>>
    /\ UNCHANGED not_cli_vars

\* the flow at the end of flows_run ends in the way e
EndFlow(flow, ends) ==
    /\ cli_pc = "flow"
    /\ flows_run[Len(flows_run)].flow = flow
    /\ \E e \in ends :
          /\ flows_run' = [flows_run EXCEPT ![Len(flows_run)].end = e]
          /\ IF e.raised
             THEN cli_exc' = e.text /\ cli_pc' = "crashed"
             ELSE cli_exc' = cli_exc /\ cli_pc' = "menu"
    /\ UNCHANGED <<menu_inputs, cli_printed>>
    /\ UNCHANGED not_cli_vars

analyze_metadata_flow ==
    EndFlow("analyze_metadata_flow",
            {Printed("Analysis Results"), NotFound})

verify_extension_flow ==
    EndFlow("verify_extension_flow",
            {Printed("Detected MIME type"), NotFound, Escaped("OSError")})

wipe_metadata_flow ==
    EndFlow("wipe_metadata_flow",
            {Printed("Success! Clean file saved"), Printed("not supported"),
             NotFound, Escaped("PdfReadError")})

apply_default_metadata_flow ==
    EndFlow("apply_default_metadata_flow",
            {Printed("Done. File with default metadata created"),
             Printed("not supported"), NotFound, Escaped("PdfReadError")})

apply_custom_metadata_flow ==
    EndFlow("apply_custom_metadata_flow",
            {Printed("No metadata provided. Aborting."),
             Printed("Custom metadata applied!"), Printed("not supported"),
             NotFound, Escaped("PdfReadError")})

\* the program is started again
cli_restart ==
    /\ cli_pc \in {"stopped", "crashed"}
    /\ cli_pc' = "menu"
    /\ menu_inputs' = <<>>
    /\ flows_run' = <<>>
    /\ cli_printed' = ""
    /\ cli_exc' = ""
    /\ UNCHANGED not_cli_vars

NextCli ==
    \/ cli_input
    \/ cli_eof
    \/ analyze_metadata_flow
    \/ verify_extension_flow
    \/ wipe_metadata_flow
    \/ apply_default_metadata_flow
    \/ apply_custom_metadata_flow
    \/ cli_restart

SpecCli == Init /\ [][NextCli]_vars

\* the flow the menu text gives an option, "" for none
FlowOfOption(choice) ==
    IF choice = "1" THEN "analyze_metadata_flow"
    ELSE IF choice = "2" THEN "verify_extension_flow"
    ELSE IF choice = "3" THEN "wipe_metadata_flow"
    ELSE IF choice = "4" THEN "apply_default_metadata_flow"
    ELSE IF choice = "5" THEN "apply_custom_metadata_flow"
    ELSE ""

\* the flows the lines call one after the other, each line read as read(line)
RECURSIVE FlowsOf(_, _)
FlowsOf(lines, stripped) ==
    IF lines = <<>> THEN <<>>
    ELSE LET choice == IF stripped THEN strip(Head(lines)) ELSE Head(lines)
             rest == FlowsOf(Tail(lines), stripped)
         IN  IF FlowOfOption(choice) = "" THEN rest
             ELSE <<FlowOfOption(choice)>> \o rest

\* the positions of the lines that read '6'
Sixes(lines, stripped) ==
    {i \in 1..Len(lines) :
        (IF stripped THEN strip(lines[i]) ELSE lines[i]) = "6"}

\* only file-not-found errors happened in the flows, and input never failed
OnlyNotFound == cli_exc = ""

\* what the claim says of run_cli, the lines compared as typed or stripped
MenuLoop(stripped) ==
    OnlyNotFound =>
        /\ [i \in 1..Len(flows_run) |-> flows_run[i].flow]
              = FlowsOf(menu_inputs, stripped)
        /\ (cli_pc = "stopped") <=> (Sixes(menu_inputs, stripped) # {})
        /\ Sixes(menu_inputs, stripped) \subseteq {Len(menu_inputs)}
        /\ cli_pc \in {"menu", "flow", "stopped"}
        /\ \A i \in 1..Len(flows_run) :
              (flows_run[i].end = Running) => (i = Len(flows_run) /\ cli_pc = "flow")

\* C29 as stated: the loop stops at the first line equal to '6', the lines
\* '1' to '5' run their flow and any other line runs none.
C29_Original == MenuLoop(FALSE)

\* C29: while flows fail only with file-not-found errors, run_cli prompts
\* until the first line that is '6' once surrounding whitespace is stripped
\* and stops there; a line that strips to '1'..'5' runs exactly its mapped
\* flow, any other line runs none, and a flow that reported a
\* FileNotFoundError is followed by the menu.
C29_MenuLoopUntilSix == MenuLoop(TRUE)

C29_Witness ==
    /\ cli_pc = "stopped"
    /\ menu_inputs = <<"3", "7", "6">>
    /\ flows_run = <<[flow |-> "wipe_metadata_flow", end |-> NotFound]>>
    /\ cli_exc = ""

(***************************************************************************)
(* The handlers of the three frames, one action per handler.                *)
(***************************************************************************)

\* what the graphical shell leaves alone
not_gui_vars == <<core_vars, modify_vars, cli_vars>>

\* controller.show_frame("ResultsFrame"): tkraise, then ResultsFrame.on_show
show_ResultsFrame(files, path) ==
    /\ gui_frame' = "ResultsFrame"
    /\ lbl_path' = path
    /\ txt_console' = run_analysis(files, path).console
    /\ current_metadata' = run_analysis(files, path).current_metadata

\* FileSelectFrame.browse_file: the dialog answers a file, or nothing
browse_file ==
    /\ gui_frame = "FileSelectFrame"
    /\ \E filename \in {f.path : f \in gui_fs} \cup {NoPath} :
          selected_file_path' =
              (IF filename # NoPath THEN filename ELSE selected_file_path)
    /\ gui_event' = "browse_file"
    /\ new_path' = NoPath
    /\ UNCHANGED <<gui_frame, current_metadata, txt_console, lbl_path, gui_fs,
                   gui_writes>>
    /\ UNCHANGED not_gui_vars

\* FileSelectFrame.start_analysis
start_analysis ==
    /\ gui_frame = "FileSelectFrame"
    /\ IF selected_file_path = NoPath
       THEN UNCHANGED <<gui_frame, current_metadata, txt_console, lbl_path>>
       ELSE show_ResultsFrame(gui_fs, selected_file_path)
    /\ gui_event' = "start_analysis"
    /\ new_path' = NoPath
    /\ UNCHANGED <<selected_file_path, gui_fs, gui_writes>>
    /\ UNCHANGED not_gui_vars

\* ResultsFrame.change_file and CustomMetadataFrame.change_file
change_file ==
    /\ gui_frame \in {"ResultsFrame", "CustomMetadataFrame"}
    /\ gui_frame' = "FileSelectFrame"
    /\ gui_event' = "change_file"
    /\ new_path' = NoPath
    /\ UNCHANGED <<selected_file_path, current_metadata, txt_console, lbl_path,
                   gui_fs, gui_writes>>
    /\ UNCHANGED not_gui_vars

\* the body ResultsFrame.delete_metadata and set_default_metadata share
results_write(event, sfx, meta) ==
    /\ gui_frame = "ResultsFrame"
    /\ gui_writes < MaxWrites
    /\ gui_event' = event
    /\ \E yes \in BOOLEAN :
          LET path == selected_file_path
              known == \E f \in gui_fs : f.path = path
              file_type ==
                  IF known
                  THEN infer_file_type(Lower(path_suffix(path.name)),
                                       file_at(gui_fs, path).format)
                  ELSE "unknown"
              out == write_copy(gui_fs, path, file_type, sfx, meta)
          IN  IF yes /\ known /\ file_type # "unknown" /\ ~out.raised
              THEN /\ gui_fs' = with_copy(gui_fs, out.value)
                   /\ new_path' = out.value.path
                   /\ selected_file_path' =
                         select_written(selected_file_path, out.value.path)
                   /\ txt_console' =
                         run_analysis(gui_fs', out.value.path).console
                   /\ current_metadata' =
                         run_analysis(gui_fs', out.value.path).current_metadata
                   /\ gui_writes' = gui_writes + 1
              ELSE /\ new_path' = NoPath
                   /\ UNCHANGED <<gui_fs, selected_file_path, txt_console,
                                  current_metadata, gui_writes>>
    /\ UNCHANGED <<gui_frame, lbl_path>>
    /\ UNCHANGED not_gui_vars

\* ResultsFrame.delete_metadata
delete_metadata == results_write("delete_metadata", "_clean", "")

\* core.modify_metadata.default_metadata: the suffix and the template of
\* the apply_default_* operations
default_suffix == "_default"
default_template == "Title default"

\* ResultsFrame.set_default_metadata
set_default_metadata ==
    results_write("set_default_metadata", default_suffix, default_template)

\* ResultsFrame.go_to_custom: show_frame, then CustomMetadataFrame.on_show
go_to_custom ==
    /\ gui_frame = "ResultsFrame"
    /\ gui_frame' = "CustomMetadataFrame"
    /\ lbl_path' = selected_file_path
    /\ gui_event' = "go_to_custom"
    /\ new_path' = NoPath
    /\ UNCHANGED <<selected_file_path, current_metadata, txt_console, gui_fs,
                   gui_writes>>
    /\ UNCHANGED not_gui_vars

\* CustomMetadataFrame.cancel
cancel ==
    /\ gui_frame = "CustomMetadataFrame"
    /\ show_ResultsFrame(gui_fs, selected_file_path)
    /\ gui_event' = "cancel"
    /\ new_path' = NoPath
    /\ UNCHANGED <<selected_file_path, gui_fs, gui_writes>>
    /\ UNCHANGED not_gui_vars

\* CustomMetadataFrame.save_changes
save_changes ==
    /\ gui_frame = "CustomMetadataFrame"
    /\ gui_writes < MaxWrites
    /\ gui_event' = "save_changes"
    /\ \E new_metadata \in TypedMetadata :
          LET path == selected_file_path
              ext == Lower(splitext_ext(path.name))
              out == write_copy(gui_fs, path, save_changes_type(ext),
                                "_custom", new_metadata)
          IN  IF save_changes_type(ext) # "unknown" /\ ~out.raised
              THEN /\ gui_fs' = with_copy(gui_fs, out.value)
                   /\ new_path' = out.value.path
                   /\ selected_file_path' =
                         select_written(selected_file_path, out.value.path)
                   /\ show_ResultsFrame(gui_fs', selected_file_path')
                   /\ gui_writes' = gui_writes + 1
              ELSE /\ new_path' = NoPath
                   /\ UNCHANGED <<gui_fs, selected_file_path, gui_frame,
                                  lbl_path, txt_console, current_metadata,
                                  gui_writes>>
    /\ UNCHANGED not_gui_vars

\* the window is closed and the program started again
gui_restart ==
    /\ gui_writes = MaxWrites
    /\ gui_frame' = "FileSelectFrame"
    /\ selected_file_path' = NoPath
    /\ current_metadata' = ""
    /\ txt_console' = NoConsole
    /\ lbl_path' = NoPath
    /\ gui_fs' = GuiFiles
    /\ gui_event' = "__init__"
    /\ new_path' = NoPath
    /\ gui_writes' = 0
    /\ UNCHANGED not_gui_vars

NextGui ==
    \/ browse_file
    \/ start_analysis
    \/ change_file
    \/ delete_metadata
    \/ set_default_metadata
    \/ go_to_custom
    \/ cancel
    \/ save_changes
    \/ gui_restart

SpecGui == Init /\ [][NextGui]_vars

\* a wipe, default or custom write has just succeeded
WriteSucceeded ==
    /\ gui_event \in {"delete_metadata", "set_default_metadata", "save_changes"}
    /\ new_path # NoPath

\* C30: whenever ResultsFrame is the visible frame, the analysis in its
\* console and controller.current_metadata are those of the file at the
\* selected path, and the selection is not empty; right after a successful
\* wipe, default or custom write the selection is the file just written.
C30_ResultsShowSelectedFile ==
    /\ gui_frame = "ResultsFrame" =>
          /\ selected_file_path # NoPath
          /\ \E f \in gui_fs :
                /\ f.path = selected_file_path
                /\ txt_console = [mime |-> f.format, metadata |-> f.meta]
                /\ current_metadata = f.meta
    /\ (gui_event = "start_analysis" /\ selected_file_path = NoPath) =>
          gui_frame = "FileSelectFrame"
    /\ WriteSucceeded =>
          /\ selected_file_path = new_path
          /\ gui_frame = "ResultsFrame"
          /\ \E f \in gui_fs : f.path = new_path

C30_Witness ==
    /\ gui_frame = "ResultsFrame"
    /\ gui_event = "delete_metadata"
    /\ new_path = Path("/d", "a_custom_clean.pdf")
    /\ selected_file_path = new_path
    /\ current_metadata = ""
    /\ txt_console = [mime |-> "pdf", metadata |-> ""]
    /\ gui_writes = 2

====
